---- MODULE Spec2Model ----
(***************************************************************************)
(* A model of three subsystems of the gateway:                             *)
(*   - the framebuffer proxy        (src/src/gateway/vnc-proxy.ts),        *)
(*   - the display supervisor       (src/src/gateway/vnc-process-manager.ts)*)
(*   - the hook request handler     (src/unnamed/part_000).                *)
(* Each subsystem has its own specification (SpecProxy, SpecVnc, SpecHooks);*)
(* the variables of the other subsystems stay at their initial value.      *)
(***************************************************************************)
EXTENDS Integers, Sequences, FiniteSets, TLC

VARIABLES
  \* ---- framebuffer proxy session (attachVncProxy) ----
  upstream,       \* the local variable `upstream`: "socket" or "null"
  wsOpen,         \* the local variable `wsOpen`
  destroyed,      \* upstream.destroyed of the TCP socket
  upConnected,    \* the TCP connection has been established
  upErrored,      \* the socket has emitted 'error'
  upClosedEv,     \* the socket has emitted 'close' (its last event)
  readyState,     \* ws.readyState: 1 OPEN, 2 CLOSING, 3 CLOSED
  wsErrored,      \* the WebSocket has emitted 'error'
  wsClosedEv,     \* the WebSocket has emitted 'close' (its last event)
  destroyCalls,   \* number of upstream.destroy() calls made by the proxy
  closeCalls,     \* number of ws.close() calls made by the proxy
  upRecv,         \* chunks delivered by upstream 'data' events, in order
  wsSent,         \* chunks handed to ws.send() that did not throw, in order
  wsRecv,         \* payloads of the WebSocket messages received, as bytes on the wire
  upWritten,      \* bytes handed to upstream.write() that did not throw
  handled,        \* some close/error handler of the session has run
  lateData,       \* an upstream 'data' event arrived after the WebSocket 'close' event
  lateMsg,        \* a WebSocket message arrived after the socket was destroyed
  \* ---- display supervisor (VncProcessManager) ----
  xvfb,           \* this.xvfb: 0 (null) or the index of a child in `children`
  x11vnc,         \* this.x11vnc: 0 (null) or the index of a child in `children`
  children,       \* every child spawned so far: [kind, st], in spawn order
  stopping,       \* this.stopping
  restartTimers,  \* the keys of the map this.restartTimers
  pendingTimers,  \* per kind, the 5 s timeouts that are armed and not cleared
  followUp,       \* armed 2 s timeouts of a display restart (not kept in the map)
  startsSuspended,\* start() calls suspended in `await this.waitForDisplay()`
  stopCleared,    \* timeouts cleared by the most recent stop()
  stoppedAlready, \* the most recent stop() found nothing left to stop
  vncLast,        \* the supervisor step taken last and what it did
  \* ---- hook endpoint (createHooksRequestHandler) ----
  hookAuthFailures, \* the Map hookAuthFailures: entries [key, count, windowStartedAtMs] in insertion order
  now,              \* Date.now()
  failuresInWindow, \* the observed key's failed attempts in its window, counted from the requests
  evicted,          \* the oldest-half eviction removed the observed key's entry since it last authenticated
  keysSeen,         \* the highest of the other keys that has presented a token so far
  hookLast,         \* the hook request handled last and its response
  \* ---- gateway HTTP server and upgrade handler ----
  clients,          \* the set opts.clients, by the clientIp of each entry ("" if it has none)
  viewerAuthorized, \* client IPs a viewer-subtree request of which has passed authorization
  gwLast,           \* the request or upgrade being served and what was done for it
  \* ---- static assets of the viewer ----
  assetLast,        \* the last asset request and its response
  \* ---- browser launcher ----
  chPc,                \* where launchOpenClawChrome stands
  chProcs,             \* the children spawned, the last one is the variable proc
  chLog,               \* what the launcher and the stopper did, in order
  earlyCrashDetected,
  earlyCrashSignal,    \* "none": null
  readyDeadlinePassed, \* Date.now() >= readyDeadline
  cdpUp,               \* the debugging endpoint answers /json/version
  wsUp,                \* the advertised WebSocket URL accepts a handshake
  crashedEarly,        \* the first child crashed early while the call was running
  stopPc,              \* where stopOpenClawChrome stands
  stopTimedOut,        \* Date.now() - start >= timeoutMs
  stopPolled,          \* stopOpenClawChrome has asked whether the endpoint answers
  \* ---- browser control service (module variable `state` and its callers) ----
  state,               \* the module variable `state`: Null or the identity of a state object
  stateObjects,        \* how many state objects have been created
  ctlStarting,         \* calls of start suspended before `state = {...}`
  ctlRelaying,         \* calls of start suspended in ensureExtensionRelayForProfiles
  ctlStopping,         \* calls of stop suspended in stopKnownBrowserProfiles
  ctlLast              \* what the last step of the service did

proxyVars == <<upstream, wsOpen, destroyed, upConnected, upErrored, upClosedEv,
               readyState, wsErrored, wsClosedEv, destroyCalls, closeCalls,
               upRecv, wsSent, wsRecv, upWritten, handled, lateData, lateMsg>>

vncVars == <<xvfb, x11vnc, children, stopping, restartTimers, pendingTimers,
             followUp, startsSuspended, stopCleared, stoppedAlready,
             vncLast>>

hookVars == <<hookAuthFailures, now, failuresInWindow, evicted, keysSeen, hookLast>>

gwVars == <<clients, viewerAuthorized, gwLast>>

assetVars == <<assetLast>>

chromeVars == <<chPc, chProcs, chLog, earlyCrashDetected, earlyCrashSignal,
                readyDeadlinePassed, cdpUp, wsUp, crashedEarly, stopPc,
                stopTimedOut, stopPolled>>

controlVars == <<state, stateObjects, ctlStarting, ctlRelaying, ctlStopping, ctlLast>>

vars == <<proxyVars, vncVars, hookVars, gwVars, assetVars, chromeVars, controlVars>>

\* What the steps of one subsystem leave alone.
notProxy == <<vncVars, hookVars, gwVars, assetVars, chromeVars, controlVars>>
notVnc == <<proxyVars, hookVars, gwVars, assetVars, chromeVars, controlVars>>
notHooks == <<proxyVars, vncVars, gwVars, assetVars, chromeVars, controlVars>>
notGateway == <<proxyVars, vncVars, assetVars, chromeVars, controlVars>>
notAssets == <<proxyVars, vncVars, hookVars, gwVars, chromeVars, controlVars>>
notChrome == <<proxyVars, vncVars, hookVars, gwVars, assetVars, controlVars>>
notControl == <<proxyVars, vncVars, hookVars, gwVars, assetVars, chromeVars>>

(***************************************************************************)
(* Bounds of the model.                                                    *)
(***************************************************************************)
MaxUpChunks == 2   \* upstream 'data' events per session
MaxWsMsgs == 2     \* WebSocket 'message' events per session
MaxSpawns == 3     \* children spawned by one supervisor
MaxSuspended == 1  \* start() calls suspended at the same time
MaxRelLen == 6     \* characters of a requested asset path
MaxStateObjects == 3  \* state objects the control service creates
MaxPending == 2       \* calls of the control service suspended at one await
\* The hook failure table is modelled with its limit and its capacity scaled
\* down: the source has HOOK_AUTH_FAILURE_LIMIT = 20 (part_000:73) and
\* HOOK_AUTH_FAILURE_TRACK_MAX = 2048 (part_000:75).  The capacity stays above
\* 1, as half of it rounded down must be at least one entry, as it is for 2048.
HOOK_AUTH_FAILURE_LIMIT == 1
HOOK_AUTH_FAILURE_TRACK_MAX == 2

\* ws.readyState values
WS_OPEN == 1
WS_CLOSING == 2
WS_CLOSED == 3

(***************************************************************************)
(* Byte sequences and the payload conversions of the ws 'message' handler. *)
(***************************************************************************)
RECURSIVE SumLen(_)
SumLen(list) == IF list = <<>> THEN 0 ELSE Len(Head(list)) + SumLen(Tail(list))

\* The buffer of `list` that holds position p (1-based) of the concatenation,
\* and the position inside it: Buffer.concat copies each buffer at its offset.
RECURSIVE ByteAt(_, _)
ByteAt(list, p) ==
  IF p <= Len(Head(list)) THEN Head(list)[p] ELSE ByteAt(Tail(list), p - Len(Head(list)))

\* Buffer.concat(list): a buffer of the total length, filled buffer by buffer.
BufferConcatReversed(list) ==
  LET rev == [i \in 1..Len(list) |-> list[Len(list) + 1 - i]]
  IN [p \in 1..SumLen(rev) |-> ByteAt(rev, p)]

BufferConcat(list) == [p \in 1..SumLen(list) |-> ByteAt(list, p)]

\* UTF-8 of one code point below 0x800 (Buffer.from(string) encodes as UTF-8).
Utf8EncodeChar(cp) ==
  IF cp < 128 THEN <<cp>> ELSE <<192 + (cp \div 64), 128 + (cp % 64)>>

RECURSIVE Utf8Encode(_)
Utf8Encode(str) ==
  IF str = <<>> THEN <<>> ELSE Utf8EncodeChar(Head(str)) \o Utf8Encode(Tail(str))

\* The decoding the WebSocket library applies to a text frame's payload
\* (valid UTF-8 of code points below 0x800).
RECURSIVE Utf8Decode(_)
Utf8Decode(bytes) ==
  IF bytes = <<>> THEN <<>>
  ELSE IF Head(bytes) < 128 THEN <<Head(bytes)>> \o Utf8Decode(Tail(bytes))
  ELSE <<(Head(bytes) - 192) * 64 + (bytes[2] - 128)>> \o Utf8Decode(Tail(Tail(bytes)))

\* The `data` argument of ws.on("message"): kind is how the library hands the
\* payload over (Buffer, ArrayBuffer, Buffer[] of fragments, or string).
ToBuffer(msg) ==
  CASE msg.kind = "buffer" -> msg.data
    [] msg.kind = "arraybuffer" -> msg.data
    [] msg.kind = "array" -> BufferConcat(msg.data)
    [] OTHER -> Utf8Encode(msg.data)

\* Payloads a client sends, as bytes on the wire.
BinaryWires == {<<1, 2, 3>>}
TextWires == {<<195, 169, 65>>}

\* Frames as delivered by the library: a binary payload whole (Buffer or
\* ArrayBuffer) or as the list of its fragments; a text payload decoded.
WsMessages ==
  {[kind |-> k, data |-> w, wire |-> w] : k \in {"buffer", "arraybuffer"}, w \in BinaryWires}
  \cup UNION {{[kind |-> "array", data |-> <<SubSeq(w, 1, i), SubSeq(w, i + 1, Len(w))>>,
                 wire |-> w] : i \in 0..Len(w)} : w \in BinaryWires}
  \cup {[kind |-> "string", data |-> Utf8Decode(w), wire |-> w] : w \in TextWires}

UpChunks == {<<255>>, <<1, 2>>}

(***************************************************************************)
(* cleanup() of the session, as a function of the session state.           *)
(***************************************************************************)
Session == [upstream |-> upstream, destroyed |-> destroyed, wsOpen |-> wsOpen,
            readyState |-> readyState, destroyCalls |-> destroyCalls,
            closeCalls |-> closeCalls]

\* A cleanup that closes the WebSocket whenever it is not yet CLOSED and
\* forgets to lower wsOpen.
CleanupRepeatsClose(s) ==
  LET d == s.upstream # "null" /\ ~s.destroyed
      c == s.readyState < WS_CLOSED
  IN [upstream |-> IF d THEN "null" ELSE s.upstream,
      destroyed |-> s.destroyed \/ d,
      destroyCalls |-> s.destroyCalls + (IF d THEN 1 ELSE 0),
      wsOpen |-> s.wsOpen,
      readyState |-> IF c THEN WS_CLOSING ELSE s.readyState,
      closeCalls |-> s.closeCalls + (IF c THEN 1 ELSE 0)]

\* A cleanup that tears down the upstream socket only.
CleanupUpstreamOnly(s) ==
  LET d == s.upstream # "null" /\ ~s.destroyed
  IN [s EXCEPT !.upstream = IF d THEN "null" ELSE s.upstream,
               !.destroyed = s.destroyed \/ d,
               !.destroyCalls = s.destroyCalls + (IF d THEN 1 ELSE 0)]

Cleanup(s) ==
  LET d == s.upstream # "null" /\ ~s.destroyed
      c == s.wsOpen /\ s.readyState < WS_CLOSING
  IN [upstream |-> IF d THEN "null" ELSE s.upstream,
      destroyed |-> s.destroyed \/ d,
      destroyCalls |-> s.destroyCalls + (IF d THEN 1 ELSE 0),
      wsOpen |-> IF c THEN FALSE ELSE s.wsOpen,
      readyState |-> IF c THEN WS_CLOSING ELSE s.readyState,
      closeCalls |-> s.closeCalls + (IF c THEN 1 ELSE 0)]

\* Writes the session record back to the variables.
SetSession(t) ==
  /\ upstream' = t.upstream
  /\ destroyed' = t.destroyed
  /\ wsOpen' = t.wsOpen
  /\ readyState' = t.readyState
  /\ destroyCalls' = t.destroyCalls
  /\ closeCalls' = t.closeCalls

\* The guards of the two forwarding handlers.
AlwaysTrue == TRUE

CanSendToWs == wsOpen /\ readyState = WS_OPEN

CanWriteUpstream == upstream # "null" /\ ~destroyed

(***************************************************************************)
(* The session's handlers (its initial state, the state when               *)
(* attachVncProxy returns, is part of Init below).                         *)
(***************************************************************************)

\* The connect callback: only logs.
UpConnect ==
  /\ ~upConnected /\ ~destroyed /\ ~upClosedEv
  /\ upConnected' = TRUE
  /\ UNCHANGED <<upstream, wsOpen, destroyed, upErrored, upClosedEv, readyState,
                 wsErrored, wsClosedEv, destroyCalls, closeCalls, upRecv, wsSent,
                 wsRecv, upWritten, handled, lateData, lateMsg>>
  /\ UNCHANGED notProxy

\* upstream.on("data"): forward the chunk when the WebSocket is open; a
\* throwing ws.send() sends nothing and runs cleanup().
UpData ==
  /\ upConnected /\ ~upClosedEv /\ Len(upRecv) < MaxUpChunks
  /\ lateData' = (lateData \/ wsClosedEv)
  /\ \E chunk \in UpChunks, throws \in BOOLEAN :
       /\ upRecv' = Append(upRecv, chunk)
       /\ IF CanSendToWs
          THEN IF throws
               THEN /\ SetSession(Cleanup(Session))
                    /\ wsSent' = wsSent
               ELSE /\ wsSent' = Append(wsSent, chunk)
                    /\ UNCHANGED <<upstream, destroyed, wsOpen, readyState,
                                   destroyCalls, closeCalls>>
          ELSE UNCHANGED <<upstream, destroyed, wsOpen, readyState, destroyCalls,
                           closeCalls, wsSent>>
  /\ UNCHANGED <<upConnected, upErrored, upClosedEv, wsErrored, wsClosedEv, wsRecv,
                 upWritten, handled, lateMsg>>
  /\ UNCHANGED notProxy

\* The peer ends the TCP stream: the socket (allowHalfOpen false) destroys
\* itself; its 'close' event follows.  No handler of the proxy runs.
UpPeerEnd ==
  /\ upConnected /\ ~destroyed /\ ~upClosedEv
  /\ destroyed' = TRUE
  /\ UNCHANGED <<upstream, wsOpen, upConnected, upErrored, upClosedEv, readyState,
                 wsErrored, wsClosedEv, destroyCalls, closeCalls, upRecv, wsSent,
                 wsRecv, upWritten, handled, lateData, lateMsg>>
  /\ UNCHANGED notProxy

\* upstream.on("close"): emitted once, after the socket was destroyed.
UpClose ==
  /\ destroyed /\ ~upClosedEv
  /\ upClosedEv' = TRUE
  /\ SetSession(Cleanup(Session))
  /\ handled' = TRUE
  /\ UNCHANGED <<upConnected, upErrored, wsErrored, wsClosedEv, upRecv, wsSent,
                 wsRecv, upWritten, lateData, lateMsg>>
  /\ UNCHANGED notProxy

\* upstream.on("error"): a failed connect or an I/O error.  The socket is
\* usually destroyed already when 'error' is emitted; both cases are kept.
UpError ==
  /\ ~upErrored /\ ~upClosedEv
  /\ \E selfDestroyed \in BOOLEAN :
       SetSession(Cleanup([Session EXCEPT !.destroyed = destroyed \/ selfDestroyed]))
  /\ upErrored' = TRUE
  /\ handled' = TRUE
  /\ UNCHANGED <<upConnected, upClosedEv, wsErrored, wsClosedEv, upRecv, wsSent,
                 wsRecv, upWritten, lateData, lateMsg>>
  /\ UNCHANGED notProxy

\* ws.on("message"): coalesce the payload and write it upstream; a throwing
\* conversion or write writes nothing and runs cleanup().
WsMessage ==
  /\ ~wsClosedEv /\ Len(wsRecv) < MaxWsMsgs
  /\ lateMsg' = (lateMsg \/ destroyed)
  /\ \E msg \in WsMessages, throws \in BOOLEAN :
       /\ wsRecv' = Append(wsRecv, msg.wire)
       /\ IF CanWriteUpstream
          THEN IF throws
               THEN /\ SetSession(Cleanup(Session))
                    /\ upWritten' = upWritten
               ELSE /\ upWritten' = upWritten \o ToBuffer(msg)
                    /\ UNCHANGED <<upstream, destroyed, wsOpen, readyState,
                                   destroyCalls, closeCalls>>
          ELSE UNCHANGED <<upstream, destroyed, wsOpen, readyState, destroyCalls,
                           closeCalls, upWritten>>
  /\ UNCHANGED <<upConnected, upErrored, upClosedEv, wsErrored, wsClosedEv, upRecv,
                 wsSent, handled, lateData>>
  /\ UNCHANGED notProxy

\* The client starts the closing handshake: the library moves to CLOSING.
\* No handler of the proxy runs.
WsPeerClosing ==
  /\ readyState = WS_OPEN /\ ~wsClosedEv
  /\ readyState' = WS_CLOSING
  /\ UNCHANGED <<upstream, wsOpen, destroyed, upConnected, upErrored, upClosedEv,
                 wsErrored, wsClosedEv, destroyCalls, closeCalls, upRecv, wsSent,
                 wsRecv, upWritten, handled, lateData, lateMsg>>
  /\ UNCHANGED notProxy

\* ws.on("close"): emitted once, with readyState CLOSED.
WsClose ==
  /\ ~wsClosedEv
  /\ wsClosedEv' = TRUE
  /\ SetSession(Cleanup([Session EXCEPT !.wsOpen = FALSE, !.readyState = WS_CLOSED]))
  /\ handled' = TRUE
  /\ UNCHANGED <<upConnected, upErrored, upClosedEv, wsErrored, upRecv, wsSent,
                 wsRecv, upWritten, lateData, lateMsg>>
  /\ UNCHANGED notProxy

\* ws.on("error"): the library may or may not have moved to CLOSING already.
WsError ==
  /\ ~wsErrored /\ ~wsClosedEv
  /\ \E rs \in {readyState, IF readyState = WS_OPEN THEN WS_CLOSING ELSE readyState} :
       SetSession(Cleanup([Session EXCEPT !.readyState = rs]))
  /\ wsErrored' = TRUE
  /\ handled' = TRUE
  /\ UNCHANGED <<upConnected, upErrored, upClosedEv, wsClosedEv, upRecv, wsSent,
                 wsRecv, upWritten, lateData, lateMsg>>
  /\ UNCHANGED notProxy

ProxyNext ==
  \/ UpConnect
  \/ UpData
  \/ UpPeerEnd
  \/ UpClose
  \/ UpError
  \/ WsMessage
  \/ WsPeerClosing
  \/ WsClose
  \/ WsError


(***************************************************************************)
(* The display supervisor (class VncProcessManager).                       *)
(* A child is "running" (alive), "killed" (got SIGTERM, its exit event is  *)
(* still to come), "failed" (emitted 'error': it could not be spawned; an  *)
(* exit event may or may not follow) or "exited" (its exit event was       *)
(* delivered).                                                             *)
(***************************************************************************)
Kinds == {"xvfb", "x11vnc"}

Sup == [xvfb |-> xvfb, x11vnc |-> x11vnc, children |-> children,
        stopping |-> stopping, restartTimers |-> restartTimers,
        pendingTimers |-> pendingTimers, followUp |-> followUp]

SetSup(t) ==
  /\ xvfb' = t.xvfb
  /\ x11vnc' = t.x11vnc
  /\ children' = t.children
  /\ stopping' = t.stopping
  /\ restartTimers' = t.restartTimers
  /\ pendingTimers' = t.pendingTimers
  /\ followUp' = t.followUp

\* spawn(): a new running child at the end of `children`.
Spawn(cs, kind) == Append(cs, [kind |-> kind, st |-> "running"])

\* child.kill("SIGTERM"): a running child will exit; any other is unaffected.
Kill(cs, id) ==
  IF cs[id].st = "running" THEN [cs EXCEPT ![id].st = "killed"] ELSE cs

\* startXvfb(): returns at once when a handle is held or when the lock file
\* names a live process (reuse); spawns otherwise.
DoStartXvfb(s, reuse) ==
  IF s.xvfb # 0 \/ reuse THEN s
  ELSE [s EXCEPT !.children = Spawn(s.children, "xvfb"),
                 !.xvfb = Len(s.children) + 1]

DoStopXvfb(s) ==
  IF s.xvfb # 0
  THEN [s EXCEPT !.children = Kill(s.children, s.xvfb), !.xvfb = 0]
  ELSE s

DoStartX11vnc(s) ==
  IF s.x11vnc # 0 THEN s
  ELSE [s EXCEPT !.children = Spawn(s.children, "x11vnc"),
                 !.x11vnc = Len(s.children) + 1]

DoStopX11vnc(s) ==
  IF s.x11vnc # 0
  THEN [s EXCEPT !.children = Kill(s.children, s.x11vnc), !.x11vnc = 0]
  ELSE s

\* A scheduleRestart() without the `stopping` test.
DoScheduleRestartWhileStopping(s, kind) ==
  IF kind \in s.restartTimers THEN s
  ELSE [s EXCEPT !.restartTimers = s.restartTimers \cup {kind},
                 !.pendingTimers[kind] = s.pendingTimers[kind] + 1]

\* A scheduleRestart() without the `existing` test.
DoScheduleRestartAgain(s, kind) ==
  IF s.stopping THEN s
  ELSE [s EXCEPT !.restartTimers = s.restartTimers \cup {kind},
                 !.pendingTimers[kind] = s.pendingTimers[kind] + 1]

\* scheduleRestart(kind): arms a 5 s timeout and records it in the map,
\* unless the supervisor is stopping or the map has one for the kind.
DoScheduleRestart(s, kind) ==
  IF s.stopping THEN s
  ELSE IF kind \in s.restartTimers THEN s
  ELSE [s EXCEPT !.restartTimers = s.restartTimers \cup {kind},
                 !.pendingTimers[kind] = s.pendingTimers[kind] + 1]

\* What stop() leaves behind: the flag set, no timer in the map, no child
\* handle.
IsStopped(s) ==
  s.stopping /\ s.restartTimers = {} /\ s.xvfb = 0 /\ s.x11vnc = 0

\* stop(): clearTimeout for every timer of the map, clear the map, SIGTERM
\* to both children.
DoStop(s) ==
  DoStopXvfb(DoStopX11vnc(
    [s EXCEPT !.stopping = TRUE,
              !.pendingTimers = [k \in Kinds |->
                 IF k \in s.restartTimers /\ s.pendingTimers[k] > 0
                 THEN s.pendingTimers[k] - 1 ELSE s.pendingTimers[k]],
              !.restartTimers = {}]))

\* The exit handler of a child of `kind`.
OnExit(s, kind) ==
  LET t == IF kind = "xvfb" THEN [s EXCEPT !.xvfb = 0] ELSE [s EXCEPT !.x11vnc = 0]
  IN IF ~t.stopping THEN DoScheduleRestart(t, kind) ELSE t

\* The error handler of a child of `kind`.
OnError(s, kind) == DoScheduleRestart(s, kind)

\* A timeout callback that restarts the display only.
OnRestartTimerDisplayOnly(s, kind, reuse) ==
  LET t == [s EXCEPT !.restartTimers = s.restartTimers \ {kind}]
  IN IF t.stopping \/ kind # "xvfb" THEN t
     ELSE [DoStartXvfb(t, reuse) EXCEPT !.followUp = t.followUp + 1]

\* The callback of the 5 s timeout of `kind`.
OnRestartTimer(s, kind, reuse) ==
  LET t == [s EXCEPT !.restartTimers = s.restartTimers \ {kind}]
  IN IF t.stopping THEN t
     ELSE IF kind = "xvfb"
          THEN [DoStartXvfb(t, reuse) EXCEPT !.followUp = t.followUp + 1]
          ELSE DoStartX11vnc(t)

\* The callback of the 2 s timeout.
OnFollowUp(s) ==
  IF ~s.stopping THEN DoStartX11vnc(DoStopX11vnc(s)) ELSE s

Last(op, kind, s, t, reused) ==
  [op |-> op, kind |-> kind,
   spawned |-> Len(t.children) > Len(s.children),
   scheduled |-> \E k \in Kinds : t.pendingTimers[k] > s.pendingTimers[k],
   reused |-> reused]


\* start() up to its await: checkBinaries() fails, or startXvfb() runs and
\* the call suspends in waitForDisplay().
Start ==
  \E bins \in BOOLEAN, reuse \in BOOLEAN :
    LET s == [Sup EXCEPT !.stopping = FALSE]
        t == IF bins THEN DoStartXvfb(s, reuse) ELSE s
    IN /\ bins => startsSuspended < MaxSuspended
       /\ ~bins => ~reuse
       /\ Len(t.children) <= MaxSpawns
       /\ SetSup(t)
       /\ startsSuspended' = IF bins THEN startsSuspended + 1 ELSE startsSuspended
       /\ vncLast' = Last("start", "xvfb", Sup, t, bins /\ reuse /\ xvfb = 0)
       /\ UNCHANGED <<stopCleared, stoppedAlready, notVnc>>

\* start() after its await: startX11vnc().
StartResume ==
  LET t == DoStartX11vnc(Sup)
  IN /\ startsSuspended > 0
     /\ Len(t.children) <= MaxSpawns
     /\ SetSup(t)
     /\ startsSuspended' = startsSuspended - 1
     /\ vncLast' = Last("resume", "x11vnc", Sup, t, FALSE)
     /\ UNCHANGED <<stopCleared, stoppedAlready, notVnc>>

Stop ==
  LET t == DoStop(Sup)
  IN /\ SetSup(t)
     /\ stopCleared' = Cardinality({k \in Kinds : t.pendingTimers[k] < pendingTimers[k]})
     /\ stoppedAlready' = IsStopped(Sup)
     /\ vncLast' = Last("stop", "none", Sup, t, FALSE)
     /\ UNCHANGED <<startsSuspended, notVnc>>

\* A child exits (by itself, or after SIGTERM) and its exit handler runs.
ChildExit ==
  \E id \in 1..Len(children) :
    LET s == [Sup EXCEPT !.children[id].st = "exited"]
        t == OnExit(s, children[id].kind)
    IN /\ children[id].st \in {"running", "killed", "failed"}
       /\ SetSup(t)
       /\ vncLast' = Last("exit", children[id].kind, s, t, FALSE)
       /\ UNCHANGED <<startsSuspended, stopCleared, stoppedAlready, notVnc>>

\* A child emits 'error' (it could not be spawned) and its error handler runs.
ChildError ==
  \E id \in 1..Len(children) :
    LET s == [Sup EXCEPT !.children[id].st = "failed"]
        t == OnError(s, children[id].kind)
    IN /\ children[id].st = "running"
       /\ SetSup(t)
       /\ vncLast' = Last("error", children[id].kind, s, t, FALSE)
       /\ UNCHANGED <<startsSuspended, stopCleared, stoppedAlready, notVnc>>

\* An armed 5 s timeout fires.  A 2 s timeout armed earlier has fired by the
\* time a display timeout fires again (it was armed when the previous one fired).
RestartTimerFires ==
  \E kind \in Kinds, reuse \in BOOLEAN :
    LET s == [Sup EXCEPT !.pendingTimers[kind] = pendingTimers[kind] - 1]
        t == OnRestartTimer(s, kind, reuse)
        reused == reuse /\ kind = "xvfb" /\ ~stopping /\ xvfb = 0
    IN /\ pendingTimers[kind] > 0
       /\ kind = "xvfb" => followUp = 0
       /\ reuse => reused
       /\ Len(t.children) <= MaxSpawns
       /\ SetSup(t)
       /\ vncLast' = Last("timer", kind, s, t, reused)
       /\ UNCHANGED <<startsSuspended, stopCleared, stoppedAlready, notVnc>>

\* The 2 s timeout of a display restart fires.
FollowUpFires ==
  LET s == [Sup EXCEPT !.followUp = followUp - 1]
      t == OnFollowUp(s)
  IN /\ followUp > 0
     /\ Len(t.children) <= MaxSpawns
     /\ SetSup(t)
     /\ vncLast' = Last("followup", "x11vnc", s, t, FALSE)
     /\ UNCHANGED <<startsSuspended, stopCleared, stoppedAlready, notVnc>>

VncNext ==
  \/ Start
  \/ StartResume
  \/ Stop
  \/ ChildExit
  \/ ChildError
  \/ RestartTimerFires
  \/ FollowUpFires

(***************************************************************************)
(* The hook endpoint: createHooksRequestHandler and its failure table.     *)
(* The Map hookAuthFailures is a sequence of entries in insertion order.   *)
(***************************************************************************)
HOOK_AUTH_FAILURE_WINDOW_MS == 60000

\* The clock readings the model takes: the start, the last millisecond of a
\* window that began at the start, and the first millisecond after it.
TimePoints == {0, HOOK_AUTH_FAILURE_WINDOW_MS - 1, HOOK_AUTH_FAILURE_WINDOW_MS}

\* req.socket?.remoteAddress: 0 stands for an absent or blank address
RemoteAddresses == 0..HOOK_AUTH_FAILURE_TRACK_MAX

UnknownKey == HOOK_AUTH_FAILURE_TRACK_MAX + 1

resolveHookClientKey(remoteAddress) ==
  IF remoteAddress = 0 THEN UnknownKey ELSE remoteAddress

\* Map operations
MapHas(m, k) == \E i \in 1..Len(m) : m[i].key = k

MapGet(m, k) == m[CHOOSE i \in 1..Len(m) : m[i].key = k]

MapDelete(m, k) == SelectSeq(m, LAMBDA e : e.key # k)

MapSet(m, k, v) ==
  LET e == [key |-> k, count |-> v.count, windowStartedAtMs |-> v.windowStartedAtMs]
  IN  IF MapHas(m, k)
        THEN [i \in 1..Len(m) |-> IF m[i].key = k THEN e ELSE m[i]]
        ELSE Append(m, e)

MapKeys(m) == {m[i].key : i \in 1..Len(m)}

Max(a, b) == IF a >= b THEN a ELSE b

FloorSeconds(ms) == ms \div 1000

\* Math.ceil(ms / 1000) for ms >= 0
CeilSeconds(ms) == (ms + 999) \div 1000

\* the loop of lines 281-285
PruneExpired(m, nowMs) ==
  SelectSeq(m, LAMBDA e : ~(nowMs - e.windowStartedAtMs >= HOOK_AUTH_FAILURE_WINDOW_MS))

DropNothing(m) == m

\* a loop that deletes from the end of the insertion order
DropNewestHalf(m) ==
  LET toRemove == Len(m) \div 2
  IN  SubSeq(m, 1, Len(m) - toRemove)

\* the loop of lines 288-295
DropOldestHalf(m) ==
  LET toRemove == Len(m) \div 2
  IN  SubSeq(m, toRemove + 1, Len(m))

\* lines 279-297: what the table is when the new entry is about to be set
MakeRoom(m, clientKey, nowMs) ==
  IF ~MapHas(m, clientKey) /\ Len(m) >= HOOK_AUTH_FAILURE_TRACK_MAX
    THEN LET pruned == PruneExpired(m, nowMs)
         IN  IF Len(pruned) >= HOOK_AUTH_FAILURE_TRACK_MAX
               THEN DropOldestHalf(pruned)
               ELSE pruned
    ELSE m

\* a record that starts the window anew with every failure
recordInSlidingWindow(m, clientKey, nowMs) ==
  LET m1 == MakeRoom(m, clientKey, nowMs)
      has == MapHas(m1, clientKey)
      expired == ~has \/ nowMs - MapGet(m1, clientKey).windowStartedAtMs
                           >= HOOK_AUTH_FAILURE_WINDOW_MS
      next == IF expired
                THEN [count |-> 1, windowStartedAtMs |-> nowMs]
                ELSE [count |-> MapGet(m1, clientKey).count + 1,
                      windowStartedAtMs |-> nowMs]
      m2 == MapSet(MapDelete(m1, clientKey), clientKey, next)
      retryAfterMs == Max(1, next.windowStartedAtMs + HOOK_AUTH_FAILURE_WINDOW_MS - nowMs)
  IN  IF next.count <= HOOK_AUTH_FAILURE_LIMIT
        THEN [table |-> m2, throttled |-> FALSE]
        ELSE [table |-> m2, throttled |-> TRUE,
              retryAfterSeconds |-> CeilSeconds(retryAfterMs)]

recordHookAuthFailure(m, clientKey, nowMs) ==
  LET m1 == MakeRoom(m, clientKey, nowMs)
      has == MapHas(m1, clientKey)
      expired == ~has \/ nowMs - MapGet(m1, clientKey).windowStartedAtMs
                           >= HOOK_AUTH_FAILURE_WINDOW_MS
      next == IF expired
                THEN [count |-> 1, windowStartedAtMs |-> nowMs]
                ELSE [count |-> MapGet(m1, clientKey).count + 1,
                      windowStartedAtMs |-> MapGet(m1, clientKey).windowStartedAtMs]
      m2 == MapSet(MapDelete(m1, clientKey), clientKey, next)
      retryAfterMs == Max(1, next.windowStartedAtMs + HOOK_AUTH_FAILURE_WINDOW_MS - nowMs)
  IN  IF next.count <= HOOK_AUTH_FAILURE_LIMIT
        THEN [table |-> m2, throttled |-> FALSE]
        ELSE [table |-> m2, throttled |-> TRUE,
              retryAfterSeconds |-> CeilSeconds(retryAfterMs)]

clearNothing(m, clientKey) == m

clearHookAuthFailure(m, clientKey) == MapDelete(m, clientKey)

(***************************************************************************)
(* The request handler, lines 323-505.  A request carries what the handler *)
(* reads from it and what the helpers it calls answer for it.              *)
(***************************************************************************)
BodyResults == {"ok", "payload too large", "request body timeout", "invalid json"}

\* applyHookMappings: no match, { ok: false }, action null, a wake action,
\* an agent action, or a thrown error
MappedResults == {"none", "error", "skip", "wake", "agent", "throws"}

\* The plain texts the handler hands to res.end itself, in the pieces the
\* properties look at (lines 338, 352 and 358).
QueryTokenText ==
  <<"Hook token must be provided via ", "Authorization", ": Bearer <token> or ",
    "X-OpenClaw-Token", " header (query parameters are not allowed).">>

TooManyRequestsText == <<"Too Many Requests">>

UnauthorizedText == <<"Unauthorized">>

\* What one call of the handler did: whether it returned true, the status it
\* wrote (0: none), the plain text it wrote itself (<<>>: none, or the body
\* was written by a helper), the steps it took that others can see, in
\* order, and the table it left.
NotHandled(m) ==
  [handled |-> FALSE, threw |-> FALSE, status |-> 0, retryAfter |-> 0,
   text |-> <<>>, events |-> <<>>, authFailed |-> FALSE, keyed |-> FALSE,
   table |-> m]

Respond(status, m) ==
  [handled |-> TRUE, threw |-> FALSE, status |-> status, retryAfter |-> 0,
   text |-> <<>>, events |-> <<"response">>, authFailed |-> FALSE,
   keyed |-> TRUE, table |-> m]

\* the response is written although the dispatcher was not called
RespondOnly(req, dispatcher, status, caught, m) == Respond(status, m)

\* dispatchWakeHook(...) or dispatchAgentHook(...) followed by sendJson: the
\* dispatcher returns, or throws into the try block of the mappings (caught)
\* or out of the handler
DispatchThenRespond(req, dispatcher, status, caught, m) ==
  IF ~req.dispatchThrows
    THEN [Respond(status, m) EXCEPT !.events = <<dispatcher, "returned", "response">>]
  ELSE IF caught
    THEN [Respond(500, m) EXCEPT !.events = <<dispatcher, "threw", "response">>]
  ELSE [Respond(0, m) EXCEPT !.handled = FALSE, !.threw = TRUE,
                             !.events = <<dispatcher, "threw">>]

\* the agent is dispatched before the policy and the session key are looked at
DispatchAgentUnchecked(req, caught, m) ==
  LET r == DispatchThenRespond(req, "dispatchAgentHook", 202, caught, m)
  IN  IF r.status = 202 /\ (~req.agentAllowed \/ ~req.sessionOk)
        THEN [r EXCEPT !.status = 400] ELSE r

\* lines 411-430 and 464-492: agent policy, session key, dispatch, 202
DispatchAgent(req, caught, m) ==
  IF ~req.agentAllowed THEN Respond(400, m)
  ELSE IF ~req.sessionOk THEN Respond(400, m)
  ELSE DispatchThenRespond(req, "dispatchAgentHook", 202, caught, m)

\* lines 433-504, once the body is read and the sub-path is neither wake nor agent
HandleMapped(req, m) ==
  IF ~req.hasMappings \/ req.mapped = "none" THEN Respond(404, m)
  ELSE IF req.mapped = "throws" THEN Respond(500, m)
  ELSE IF req.mapped = "error" THEN Respond(400, m)
  ELSE IF req.mapped = "skip" THEN Respond(204, m)
  ELSE IF req.mapped = "wake"
    THEN DispatchThenRespond(req, "dispatchWakeHook", 200, TRUE, m)
  ELSE IF ~req.channelOk THEN Respond(400, m)
  ELSE DispatchAgent(req, TRUE, m)

\* lines 363-504, once the token is accepted and the failure entry cleared
HandleAuthorized(req, m) ==
  IF req.method # "POST" THEN Respond(405, m)
  ELSE IF req.subPath = "" THEN Respond(404, m)
  ELSE IF req.body = "payload too large" THEN Respond(413, m)
  ELSE IF req.body = "request body timeout" THEN Respond(408, m)
  ELSE IF req.body # "ok" THEN Respond(400, m)
  ELSE IF req.subPath = "wake"
    THEN IF ~req.normOk THEN Respond(400, m)
         ELSE DispatchThenRespond(req, "dispatchWakeHook", 200, FALSE, m)
  ELSE IF req.subPath = "agent"
    THEN IF ~req.normOk THEN Respond(400, m)
         ELSE DispatchAgent(req, FALSE, m)
  ELSE HandleMapped(req, m)

\* a handler that looks at the method before it looks at the token
HandleByMethodFirst(req, m, nowMs) ==
  LET clientKey == resolveHookClientKey(req.remoteAddress)
  IN  IF req.method # "POST" THEN Respond(405, m)
      ELSE IF ~req.tokenOk
        THEN LET throttle == recordHookAuthFailure(m, clientKey, nowMs)
             IN  IF throttle.throttled
                   THEN [Respond(429, throttle.table) EXCEPT
                           !.retryAfter = throttle.retryAfterSeconds,
                           !.text = TooManyRequestsText,
                           !.authFailed = TRUE]
                   ELSE [Respond(401, throttle.table) EXCEPT
                           !.text = UnauthorizedText,
                           !.authFailed = TRUE]
        ELSE HandleAuthorized(req, clearHookAuthFailure(m, clientKey))

\* lines 343-504: the token of the headers decides
HandleByToken(req, m, nowMs) ==
  LET clientKey == resolveHookClientKey(req.remoteAddress)
  IN  IF ~req.tokenOk
        THEN LET throttle == recordHookAuthFailure(m, clientKey, nowMs)
             IN  IF throttle.throttled
                   THEN [Respond(429, throttle.table) EXCEPT
                           !.retryAfter = throttle.retryAfterSeconds,
                           !.text = TooManyRequestsText,
                           !.authFailed = TRUE]
                   ELSE [Respond(401, throttle.table) EXCEPT
                           !.text = UnauthorizedText,
                           !.authFailed = TRUE]
        ELSE HandleAuthorized(req, clearHookAuthFailure(m, clientKey))

\* a handler that does not look at the query string
HandleHookRequestByHeaderOnly(req, m, nowMs) ==
  IF ~req.configured THEN NotHandled(m)
  ELSE IF ~req.inBasePath THEN NotHandled(m)
  ELSE HandleByToken(req, m, nowMs)

\* a handler that turns a throttled key away before it looks at the token
HandleHookRequestThrottledFirst(req, m, nowMs) ==
  LET clientKey == resolveHookClientKey(req.remoteAddress)
  IN  IF ~req.configured THEN NotHandled(m)
      ELSE IF ~req.inBasePath THEN NotHandled(m)
      ELSE IF req.queryToken
        THEN [Respond(400, m) EXCEPT !.keyed = FALSE, !.text = QueryTokenText]
      ELSE IF /\ MapHas(m, clientKey)
              /\ MapGet(m, clientKey).count > HOOK_AUTH_FAILURE_LIMIT
        THEN [Respond(429, m) EXCEPT !.retryAfter = 1, !.text = TooManyRequestsText]
      ELSE HandleByToken(req, m, nowMs)

HandleHookRequest(req, m, nowMs) ==
  IF ~req.configured THEN NotHandled(m)
  ELSE IF ~req.inBasePath THEN NotHandled(m)
  ELSE IF req.queryToken
    THEN [Respond(400, m) EXCEPT !.keyed = FALSE, !.text = QueryTokenText]
  ELSE HandleByToken(req, m, nowMs)

DefaultRequest(a) ==
  [remoteAddress |-> a, configured |-> TRUE, inBasePath |-> TRUE,
   queryToken |-> FALSE, tokenOk |-> TRUE, method |-> "POST", subPath |-> "wake",
   body |-> "ok", normOk |-> TRUE, agentAllowed |-> TRUE, sessionOk |-> TRUE,
   hasMappings |-> TRUE, mapped |-> "none", channelOk |-> TRUE,
   dispatchThrows |-> FALSE]

\* The requests the model sends: from every address one with a wrong token
\* and one with the right token, and those the handler answers before it
\* looks at the token or the address.
HookRequests ==
  UNION {{DefaultRequest(a), [DefaultRequest(a) EXCEPT !.tokenOk = FALSE]} :
           a \in RemoteAddresses}
  \cup {[DefaultRequest(1) EXCEPT !.configured = FALSE, !.tokenOk = FALSE],
        [DefaultRequest(1) EXCEPT !.inBasePath = FALSE, !.tokenOk = FALSE],
        [DefaultRequest(1) EXCEPT !.queryToken = TRUE, !.tokenOk = FALSE]}

\* The requests of one client that the model sends down the whole pipeline:
\* every combination of what the steps up to the body can find, and for each
\* sub-path every combination of what its own steps can find.
PipelineRequests ==
  LET d == DefaultRequest(1)
  IN  {[d EXCEPT !.queryToken = q, !.tokenOk = t, !.method = me, !.subPath = sp,
                 !.body = b] :
         q \in BOOLEAN, t \in BOOLEAN, me \in {"POST", "GET"},
         sp \in {"", "wake"}, b \in BodyResults}
      \cup {[d EXCEPT !.subPath = sp, !.normOk = n, !.agentAllowed = al,
                      !.sessionOk = so, !.dispatchThrows = th] :
              sp \in {"wake", "agent"}, n \in BOOLEAN, al \in BOOLEAN,
              so \in BOOLEAN, th \in BOOLEAN}
      \cup {[d EXCEPT !.subPath = "github", !.hasMappings = hm, !.mapped = mp,
                      !.channelOk = ch, !.agentAllowed = al, !.sessionOk = so,
                      !.dispatchThrows = th] :
              hm \in BOOLEAN, mp \in MappedResults, ch \in BOOLEAN,
              al \in BOOLEAN, so \in BOOLEAN, th \in BOOLEAN}

\* ---- bookkeeping of the properties ----
\* The table only ever compares keys, so one key stands for any: the
\* properties follow the first key, and the other keys are numbered as they
\* first appear.
Observed == resolveHookClientKey(1)

NoFailures == [count |-> 0, windowStartedAtMs |-> 0]

WindowOver(e, nowMs) ==
  e.count = 0 \/ nowMs - e.windowStartedAtMs >= HOOK_AUTH_FAILURE_WINDOW_MS

\* the failures of a key in its window, counted from the requests alone
CountFailure(e, nowMs) ==
  IF WindowOver(e, nowMs)
    THEN [count |-> 1, windowStartedAtMs |-> nowMs]
    ELSE [count |-> e.count + 1, windowStartedAtMs |-> e.windowStartedAtMs]

\* the keys whose running window the oldest-half eviction removes
EvictedBy(m, clientKey, nowMs) ==
  MapKeys(PruneExpired(m, nowMs)) \ MapKeys(MakeRoom(m, clientKey, nowMs))

\* failures per key and window that the model follows
MaxCount == HOOK_AUTH_FAILURE_LIMIT + 1

NoRequest ==
  [key |-> 0, status |-> 0, retryAfter |-> 0, text |-> <<>>, events |-> <<>>,
   hadCount |-> 0, removed |-> FALSE, afterClear |-> FALSE,
   req |-> [DefaultRequest(0) EXCEPT !.configured = FALSE]]

\* one call of the handler with the bookkeeping: whether the model follows
\* it, and what it leaves
Handled(req) ==
  LET r == HandleHookRequest(req, hookAuthFailures, now)
      k == resolveHookClientKey(req.remoteAddress)
      counted == CountFailure(failuresInWindow, now)
      cleared == r.keyed /\ ~r.authFailed
  IN  [followed |->
         /\ ~r.keyed \/ k = Observed \/ k <= keysSeen + 1
         /\ r.authFailed => MapGet(r.table, k).count <= MaxCount
         /\ r.authFailed /\ k = Observed => counted.count <= MaxCount,
       keysSeen |-> IF r.keyed THEN Max(keysSeen, k) ELSE keysSeen,
       table |-> r.table,
       failuresInWindow |->
         IF k = Observed /\ r.authFailed THEN counted
         ELSE IF k = Observed /\ cleared THEN NoFailures
         ELSE failuresInWindow,
       evicted |->
         IF r.authFailed
           THEN evicted \/ Observed \in EvictedBy(hookAuthFailures, k, now)
         ELSE IF k = Observed /\ cleared THEN FALSE
         ELSE evicted,
       last |-> [key |-> IF r.keyed THEN k ELSE 0, status |-> r.status,
                 retryAfter |-> r.retryAfter, text |-> r.text,
                 events |-> r.events,
                 \* the count of the key's entry when the request came
                 hadCount |-> IF r.keyed /\ MapHas(hookAuthFailures, k)
                                THEN MapGet(hookAuthFailures, k).count ELSE 0,
                 \* the token was accepted and the key had an entry
                 removed |-> cleared /\ MapHas(hookAuthFailures, k),
                 \* the token was refused, and the request before this one
                 \* was one of the same key that removed its entry
                 afterClear |-> r.authFailed /\ hookLast.removed /\ hookLast.key = k,
                 req |-> req]]

\* a request that is decided by its token
HookRequest ==
  /\ \E req \in HookRequests :
       LET h == Handled(req)
       IN  /\ h.followed
           /\ hookAuthFailures' = h.table
           /\ keysSeen' = h.keysSeen
           /\ failuresInWindow' = h.failuresInWindow
           /\ evicted' = h.evicted
           /\ hookLast' = h.last
  /\ UNCHANGED <<now>>
  /\ UNCHANGED notHooks

\* a request of the observed client, with any outcome of each step
HookPipelineRequest ==
  /\ \E req \in PipelineRequests :
       LET h == Handled(req)
       IN  /\ h.followed
           /\ hookAuthFailures' = h.table
           /\ keysSeen' = h.keysSeen
           /\ failuresInWindow' = h.failuresInWindow
           /\ evicted' = h.evicted
           /\ hookLast' = h.last
  /\ UNCHANGED <<now>>
  /\ UNCHANGED notHooks

\* Date.now() moves on; the response has been sent, and a window that is over
\* counts as no window
ClockAdvances ==
  /\ \E t \in TimePoints :
       /\ t > now
       /\ now' = t
       /\ failuresInWindow' =
            IF WindowOver(failuresInWindow, t) THEN NoFailures ELSE failuresInWindow
  /\ hookLast' = NoRequest
  /\ UNCHANGED <<hookAuthFailures, evicted, keysSeen>>
  /\ UNCHANGED notHooks

HookNext ==
  \/ HookRequest
  \/ ClockAdvances

HookPipelineNext ==
  \/ HookPipelineRequest
  \/ ClockAdvances

(***************************************************************************)
(* The gateway: authorizeMachineScopedRequest, the HTTP router             *)
(* (handleRequest) and the upgrade handler.  A request carries what the    *)
(* code reads from it and what the handlers and helpers outside this file  *)
(* answer for it.                                                          *)
(***************************************************************************)
\* effective client IPs: loopback, a private address, a public address
ClientIps == {"127.0.0.1", "10.0.0.5", "203.0.113.7"}

isPrivateOrLoopbackAddress(ip) == ip \in {"127.0.0.1", "10.0.0.5"}

hasAuthorizedWsClientForIp(cl, clientIp) ==
  \E c \in cl : c # "" /\ c = clientIp

\* authorizeGatewayConnect results
AuthResults == {"ok", "unauthorized", "rate_limited"}

\* lastAuthFailure ?? { ok: false, reason: "unauthorized" }
AuthFailure(req, ev) ==
  [ok |-> FALSE, via |-> "none",
   rateLimited |-> req.hasToken /\ req.tokenAuth = "rate_limited",
   events |-> ev]

AuthOk(via, ev) == [ok |-> TRUE, via |-> via, rateLimited |-> FALSE, events |-> ev]

\* the registry answers for any address, private or not
SiblingFallbackAnyAddress(req, cl, ev) ==
  IF req.clientIp = "" THEN AuthFailure(req, ev)
  ELSE IF hasAuthorizedWsClientForIp(cl, req.clientIp)
    THEN AuthOk("sibling", ev \o <<"registry">>)
  ELSE AuthFailure(req, ev \o <<"registry">>)

\* lines 207-226: the fallback on an authorized sibling of the same address
SiblingFallback(req, cl, ev) ==
  IF req.clientIp = "" THEN AuthFailure(req, ev)
  ELSE IF ~isPrivateOrLoopbackAddress(req.clientIp) THEN AuthFailure(req, ev)
  ELSE IF hasAuthorizedWsClientForIp(cl, req.clientIp)
    THEN AuthOk("sibling", ev \o <<"registry">>)
  ELSE AuthFailure(req, ev \o <<"registry">>)

\* the registry is asked before the credential
authorizeByRegistryFirst(req, cl) ==
  IF req.isLocalDirect THEN AuthOk("local", <<>>)
  ELSE LET r == SiblingFallback(req, cl, <<>>)
       IN  IF r.ok THEN r
           ELSE IF req.hasToken /\ req.tokenAuth = "ok"
             THEN AuthOk("credential", r.events \o <<"authorizeGatewayConnect">>)
           ELSE r

authorizeMachineScopedRequest(req, cl) ==
  IF req.isLocalDirect THEN AuthOk("local", <<>>)
  ELSE IF req.hasToken
    THEN IF req.tokenAuth = "ok"
           THEN AuthOk("credential", <<"authorizeGatewayConnect">>)
           ELSE SiblingFallback(req, cl, <<"authorizeGatewayConnect">>)
  ELSE SiblingFallback(req, cl, <<>>)

\* What serving one request did: the status the router wrote (0: none, the
\* response is a handler's), who ended the request, the calls made, in order,
\* and the body of a 500 response ("": another response).
Served(status, by, ev) ==
  [status |-> status, by |-> by, events |-> ev, body |-> ""]

\* the catch of lines 814-818
InternalError(ev) ==
  [Served(500, "router", ev \o <<"internalError">>) EXCEPT
     !.body = "Internal Server Error"]

\* sendGatewayAuthFailure
AuthFailureSent(rateLimited, ev) ==
  Served(IF rateLimited THEN 429 ELSE 401, "router",
         ev \o <<"sendGatewayAuthFailure">>)

\* lines 811-813
NotFound(req, cl, ev) == Served(404, "router", ev \o <<"notFound">>)

\* lines 791-809
ControlUiStage(req, cl, ev) ==
  IF ~req.controlUiEnabled THEN NotFound(req, cl, ev)
  ELSE IF req.avatar = "throws" THEN InternalError(ev \o <<"avatar">>)
  ELSE IF req.avatar = "handled" THEN Served(0, "avatar", ev \o <<"avatar">>)
  ELSE IF req.controlUi = "throws" THEN InternalError(ev \o <<"avatar", "controlUi">>)
  ELSE IF req.controlUi = "handled"
    THEN Served(0, "controlUi", ev \o <<"avatar", "controlUi">>)
  ELSE NotFound(req, cl, ev \o <<"avatar", "controlUi">>)

\* lines 101-109; the canvas WS path counts as a canvas path
isCanvasPath(path) == path \in {"canvas", "canvasWs"}

\* lines 770-790
CanvasStage(req, cl, ev) ==
  IF ~req.canvasHost THEN ControlUiStage(req, cl, ev)
  ELSE LET auth == authorizeMachineScopedRequest(req, cl)
           ev1 == IF isCanvasPath(req.path)
                    THEN ev \o <<"authorizeMachineScoped">> \o auth.events
                    ELSE ev
       IN  IF isCanvasPath(req.path) /\ ~auth.ok
             THEN AuthFailureSent(auth.rateLimited, ev1)
           ELSE IF req.a2ui = "throws" THEN InternalError(ev1 \o <<"a2ui">>)
           ELSE IF req.a2ui = "handled" THEN Served(0, "a2ui", ev1 \o <<"a2ui">>)
           ELSE IF req.canvas = "throws"
             THEN InternalError(ev1 \o <<"a2ui", "canvasHost">>)
           ELSE IF req.canvas = "handled"
             THEN Served(0, "canvasHost", ev1 \o <<"a2ui", "canvasHost">>)
           ELSE ControlUiStage(req, cl, ev1 \o <<"a2ui", "canvasHost">>)

\* the paths of lines 623-627
ViewerPaths == {"vnc", "vnc/", "vncApi", "vncAsset"}

\* the supervisor API without the method test of lines 699, 708, 712
ViewerApiAnyMethod(req, ev) ==
  LET calls == IF req.api = "restart"
                 THEN <<"stopBrowserControlService", "startBrowserControlServiceFromConfig">>
               ELSE IF req.api = "stop" THEN <<"stopBrowserControlService">>
               ELSE IF req.api = "start"
                 THEN <<"startBrowserControlServiceFromConfig">>
               ELSE <<>>
  IN  IF calls # <<>> /\ req.serviceThrows
        THEN [Served(500, "viewer", ev \o <<calls[1], "viewerApi">>) EXCEPT
                !.body = IF req.thrown = "Error" THEN "err.message"
                         ELSE "Internal error"]
      ELSE IF req.api = "status" \/ calls # <<>>
        THEN Served(200, "viewer", ev \o calls \o <<"viewerApi">>)
      ELSE Served(404, "viewer", ev \o <<"viewerApi">>)

\* lines 656-734: the supervisor API
ViewerApi(req, ev) ==
  LET post == req.method = "POST"
      calls == IF req.api = "restart" /\ post
                 THEN <<"stopBrowserControlService", "startBrowserControlServiceFromConfig">>
               ELSE IF req.api = "stop" /\ post THEN <<"stopBrowserControlService">>
               ELSE IF req.api = "start" /\ post
                 THEN <<"startBrowserControlServiceFromConfig">>
               ELSE <<>>
  IN  IF calls # <<>> /\ req.serviceThrows
        THEN [Served(500, "viewer", ev \o <<calls[1], "viewerApi">>) EXCEPT
                !.body = IF req.thrown = "Error" THEN "err.message"
                         ELSE "Internal error"]
      ELSE IF req.api = "status" \/ calls # <<>>
        THEN Served(200, "viewer", ev \o calls \o <<"viewerApi">>)
      ELSE Served(404, "viewer", ev \o <<"viewerApi">>)

\* lines 736-768: a static asset
ViewerAsset(req, ev) ==
  IF req.asset = "no root" THEN Served(503, "viewer", ev \o <<"viewerAsset">>)
  ELSE IF req.asset = "file" THEN Served(200, "viewer", ev \o <<"readFileSync", "viewerAsset">>)
  ELSE Served(404, "viewer", ev \o <<"viewerAsset">>)

\* the subtree answers without the authorization
ViewerSubtreeOpen(req, cl, ev) ==
  IF req.path = "vnc" THEN Served(301, "viewer", ev \o <<"viewerRedirect">>)
  ELSE IF req.path = "vnc/" THEN Served(200, "viewer", ev \o <<"viewerHtml">>)
  ELSE IF req.path = "vncApi" THEN ViewerApi(req, ev)
  ELSE ViewerAsset(req, ev)

\* lines 629-768
ViewerSubtree(req, cl, ev) ==
  LET auth == authorizeMachineScopedRequest(req, cl)
      ev1 == ev \o <<"authorizeMachineScoped">> \o auth.events
  IN  IF ~auth.ok THEN AuthFailureSent(auth.rateLimited, ev1)
      ELSE IF req.path = "vnc" THEN Served(301, "viewer", ev1 \o <<"viewerRedirect">>)
      ELSE IF req.path = "vnc/" THEN Served(200, "viewer", ev1 \o <<"viewerHtml">>)
      ELSE IF req.path = "vncApi" THEN ViewerApi(req, ev1)
      ELSE ViewerAsset(req, ev1)

\* lines 622-769
ViewerStage(req, cl, ev) ==
  IF req.vncEnabled /\ req.path \in ViewerPaths
    THEN ViewerSubtree(req, cl, ev)
    ELSE CanvasStage(req, cl, ev)

\* lines 611-621
OpenAiStage(req, cl, ev) ==
  IF ~req.openAiEnabled THEN ViewerStage(req, cl, ev)
  ELSE IF req.openAi = "throws" THEN InternalError(ev \o <<"openAi">>)
  ELSE IF req.openAi = "handled" THEN Served(0, "openAi", ev \o <<"openAi">>)
  ELSE ViewerStage(req, cl, ev \o <<"openAi">>)

\* lines 599-610
OpenResponsesStage(req, cl, ev) ==
  IF ~req.openResponsesEnabled THEN OpenAiStage(req, cl, ev)
  ELSE IF req.openResponses = "throws" THEN InternalError(ev \o <<"openResponses">>)
  ELSE IF req.openResponses = "handled"
    THEN Served(0, "openResponses", ev \o <<"openResponses">>)
  ELSE OpenAiStage(req, cl, ev \o <<"openResponses">>)

\* the plugin sees a channels request before the authorizer does
PluginStageUnguarded(req, cl, ev) ==
  IF ~req.hasPlugin THEN OpenResponsesStage(req, cl, ev)
  ELSE IF req.plugin = "throws" THEN InternalError(ev \o <<"plugin">>)
  ELSE IF req.plugin = "handled" THEN Served(0, "plugin", ev \o <<"plugin">>)
  ELSE OpenResponsesStage(req, cl, ev \o <<"plugin">>)

\* lines 577-598
PluginStage(req, cl, ev) ==
  IF ~req.hasPlugin THEN OpenResponsesStage(req, cl, ev)
  ELSE LET ev1 == IF req.path = "channels"
                    THEN ev \o <<"authorizeGatewayConnect">> ELSE ev
       IN  IF req.path = "channels" /\ req.gatewayAuth # "ok"
             THEN AuthFailureSent(req.gatewayAuth = "rate_limited", ev1)
           ELSE IF req.plugin = "throws" THEN InternalError(ev1 \o <<"plugin">>)
           ELSE IF req.plugin = "handled" THEN Served(0, "plugin", ev1 \o <<"plugin">>)
           ELSE OpenResponsesStage(req, cl, ev1 \o <<"plugin">>)

\* the plugin stage runs although the Slack handler has handled the request
SlackStageGoesOn(req, cl, ev) ==
  IF req.slack = "throws" THEN InternalError(ev \o <<"slack">>)
  ELSE PluginStage(req, cl, ev \o <<"slack">>)

\* lines 574-576
SlackStage(req, cl, ev) ==
  IF req.slack = "throws" THEN InternalError(ev \o <<"slack">>)
  ELSE IF req.slack = "handled" THEN Served(0, "slack", ev \o <<"slack">>)
  ELSE PluginStage(req, cl, ev \o <<"slack">>)

\* lines 565-573
ToolsStage(req, cl, ev) ==
  IF req.tools = "throws" THEN InternalError(ev \o <<"tools">>)
  ELSE IF req.tools = "handled" THEN Served(0, "tools", ev \o <<"tools">>)
  ELSE SlackStage(req, cl, ev \o <<"tools">>)

\* the later handlers run although the hook handler has handled the request
HooksStagePassing(req, h, cl) == ToolsStage(req, cl, <<"hooks">>)

\* lines 562-564; h is what the hook handler did
HooksStage(req, h, cl) ==
  IF h.threw THEN InternalError(<<"hooks">>)
  ELSE IF h.handled THEN Served(h.status, "hooks", <<"hooks">>)
  ELSE ToolsStage(req, cl, <<"hooks">>)

\* The values of the Upgrade header the model sends ("": no such header) and
\* String.prototype.toLowerCase on them.
UpgradeHeaders == {"", "websocket", "WebSocket", "WEBSOCKET", "h2c"}

toLowerCase(h) ==
  IF h \in {"WebSocket", "WEBSOCKET"} THEN "websocket" ELSE h

\* a comparison that minds the case
isUpgradeExactly(req) == req.upgradeHeader = "websocket"

\* line 554
isUpgradeRequest(req) == toLowerCase(req.upgradeHeader) = "websocket"

\* lines 552-819
handleRequest(req, h, cl) ==
  IF isUpgradeRequest(req) THEN Served(0, "none", <<>>)
  ELSE HooksStage(req, h, cl)

\* What the upgrade handler did with one upgrade: whom it was handed to, the
\* status line written to the raw socket (0: none), the Retry-After header
\* (0: none), whether the socket was destroyed, and the calls made, in order.
Upgraded(to, ev) ==
  [to |-> to, written |-> 0, retryAfter |-> 0, destroyed |-> FALSE, events |-> ev]

\* lines 229-256 and 886
writeUpgradeAuthFailure(req, auth, ev) ==
  [to |-> "none",
   written |-> IF auth.rateLimited THEN 429 ELSE 401,
   retryAfter |-> IF auth.rateLimited /\ req.retryAfterMs > 0
                    THEN CeilSeconds(req.retryAfterMs) ELSE 0,
   destroyed |-> TRUE,
   events |-> ev \o <<"writeUpgradeAuthFailure", "destroy">>]

\* lines 890-896 (and the catch of 897-899)
CanvasUpgrade(req, ev) ==
  IF req.canvas = "throws"
    THEN [Upgraded("none", ev \o <<"canvasHost", "destroy">>) EXCEPT !.destroyed = TRUE]
  ELSE IF req.canvas = "handled" THEN Upgraded("canvasHost", ev \o <<"canvasHost">>)
  ELSE Upgraded("wss", ev \o <<"canvasHost", "wss">>)

\* the canvas WS path is handed on without the authorization
CanvasUpgradeOpen(req, cl) == CanvasUpgrade(req, <<>>)

\* lines 875-889
CanvasUpgradeGuarded(req, cl) ==
  IF req.path = "canvasWs"
    THEN LET auth == authorizeMachineScopedRequest(req, cl)
             ev == <<"authorizeMachineScoped">> \o auth.events
         IN  IF ~auth.ok THEN writeUpgradeAuthFailure(req, auth, ev)
             ELSE CanvasUpgrade(req, ev)
    ELSE CanvasUpgrade(req, <<>>)

\* lines 852-900
handleUpgrade(req, cl) ==
  IF req.vncEnabled /\ req.path = "vncWs"
    THEN Upgraded("vncProxy", <<"attachVncProxy">>)
  ELSE IF req.canvasHost THEN CanvasUpgradeGuarded(req, cl)
  ELSE Upgraded("wss", <<"wss">>)

HandlerResults == {"handled", "pass", "throws"}

\* a request that no handler wants, from a gateway with everything enabled
DefaultGwRequest ==
  [upgradeHeader |-> "", path |-> "other", method |-> "GET",
   hook |-> [DefaultRequest(1) EXCEPT !.configured = FALSE],
   tools |-> "pass", slack |-> "pass",
   hasPlugin |-> TRUE, gatewayAuth |-> "ok", plugin |-> "pass",
   openResponsesEnabled |-> TRUE, openResponses |-> "pass",
   openAiEnabled |-> TRUE, openAi |-> "pass",
   vncEnabled |-> TRUE, api |-> "status", serviceThrows |-> FALSE,
   thrown |-> "Error", asset |-> "file",
   canvasHost |-> TRUE, a2ui |-> "pass", canvas |-> "pass",
   controlUiEnabled |-> TRUE, avatar |-> "pass", controlUi |-> "pass",
   isLocalDirect |-> FALSE, hasToken |-> FALSE, tokenAuth |-> "unauthorized",
   clientIp |-> "203.0.113.7", retryAfterMs |-> 0]

\* what the authorizer can find in a request: a local direct connection comes
\* from loopback; without a bearer token authorizeGatewayConnect is not asked
AuthInputs(d) ==
  {[d EXCEPT !.isLocalDirect = TRUE, !.clientIp = "127.0.0.1", !.hasToken = t,
             !.tokenAuth = IF t THEN "ok" ELSE "unauthorized"] : t \in BOOLEAN}
  \cup {[d EXCEPT !.clientIp = ip] : ip \in ClientIps \cup {""}}
  \cup {[d EXCEPT !.clientIp = ip, !.hasToken = TRUE, !.tokenAuth = a] :
          ip \in ClientIps \cup {""}, a \in AuthResults}
  \cup {[d EXCEPT !.clientIp = ip, !.hasToken = TRUE, !.tokenAuth = "rate_limited",
                  !.retryAfterMs = ms] :
          ip \in ClientIps \cup {""}, ms \in {1, 1500}}

\* the hook requests the router is given: not the hook handler's, refused for
\* a query token, and accepted with a dispatcher that returns or throws
RouterHookRequests ==
  LET d == DefaultRequest(1)
  IN  {[d EXCEPT !.configured = FALSE], [d EXCEPT !.inBasePath = FALSE],
       [d EXCEPT !.queryToken = TRUE], d, [d EXCEPT !.dispatchThrows = TRUE]}

Willing == {"handled", "pass"}

HttpRequests ==
  LET d == DefaultGwRequest
  IN  \* which of the handlers would handle the request
      {[d EXCEPT !.hook = hk, !.tools = t, !.slack = s, !.plugin = p,
                 !.openResponses = r, !.openAi = o, !.a2ui = a, !.canvas = c,
                 !.avatar = v, !.controlUi = u] :
         hk \in {d.hook, [DefaultRequest(1) EXCEPT !.queryToken = TRUE]},
         t \in Willing, s \in Willing, p \in Willing, r \in Willing,
         o \in Willing, a \in Willing, c \in Willing, v \in Willing, u \in Willing}
      \* one handler throws
      \cup {[d EXCEPT !.tools = "throws"], [d EXCEPT !.slack = "throws"],
            [d EXCEPT !.plugin = "throws"], [d EXCEPT !.openResponses = "throws"],
            [d EXCEPT !.openAi = "throws"], [d EXCEPT !.a2ui = "throws"],
            [d EXCEPT !.canvas = "throws"], [d EXCEPT !.avatar = "throws"],
            [d EXCEPT !.controlUi = "throws"]}
      \* what the gateway was created with
      \cup {[d EXCEPT !.hasPlugin = hp, !.openResponsesEnabled = re,
                      !.openAiEnabled = oe, !.vncEnabled = ve, !.canvasHost = ch,
                      !.controlUiEnabled = ce, !.path = pa, !.isLocalDirect = TRUE,
                      !.clientIp = "127.0.0.1",
                      !.plugin = w, !.openResponses = w, !.openAi = w, !.a2ui = w,
                      !.canvas = w, !.avatar = w, !.controlUi = w] :
              hp \in BOOLEAN, re \in BOOLEAN, oe \in BOOLEAN, ve \in BOOLEAN,
              ch \in BOOLEAN, ce \in BOOLEAN,
              pa \in {"other", "channels", "vnc/", "canvas"}, w \in Willing}
      \* the machine-scoped paths
      \cup UNION {AuthInputs([d EXCEPT !.path = pa, !.vncEnabled = ve, !.canvasHost = ch]) :
                    pa \in ViewerPaths \cup {"canvas", "canvasWs"},
                    ve \in BOOLEAN, ch \in BOOLEAN}
      \* the supervisor API and the assets
      \cup {[d EXCEPT !.path = "vncApi", !.api = ac, !.method = me,
                      !.serviceThrows = th, !.isLocalDirect = l,
                      !.clientIp = IF l THEN "127.0.0.1" ELSE d.clientIp] :
              ac \in {"status", "restart", "stop", "start", "other"},
              me \in {"GET", "POST"}, th \in BOOLEAN, l \in BOOLEAN}
      \* the service throws something that is no Error
      \cup {[d EXCEPT !.path = "vncApi", !.api = ac, !.method = "POST",
                      !.serviceThrows = TRUE, !.thrown = "other",
                      !.isLocalDirect = TRUE, !.clientIp = "127.0.0.1"] :
              ac \in {"restart", "stop", "start"}}
      \cup {[d EXCEPT !.path = "vncAsset", !.asset = ao, !.isLocalDirect = l,
                      !.clientIp = IF l THEN "127.0.0.1" ELSE d.clientIp] :
              ao \in {"no root", "unsafe", "escapes", "missing", "file"},
              l \in BOOLEAN}
      \* the channels prefix
      \cup {[d EXCEPT !.path = "channels", !.hasPlugin = hp, !.gatewayAuth = ga,
                      !.plugin = p] :
              hp \in BOOLEAN, ga \in AuthResults, p \in HandlerResults}
      \* the hook handler first
      \cup {[d EXCEPT !.hook = hk, !.tools = t, !.path = pa, !.gatewayAuth = ga,
                      !.plugin = "handled"] :
              hk \in RouterHookRequests, t \in Willing,
              pa \in {"other", "channels", "vnc/", "canvas"},
              ga \in {"ok", "unauthorized"}}
      \* an upgrade request
      \cup {[d EXCEPT !.upgradeHeader = u, !.hook = hk, !.tools = t, !.path = pa] :
              u \in UpgradeHeaders, hk \in RouterHookRequests, t \in Willing,
              pa \in {"other", "vncWs", "canvasWs"}}
      \* an upgrade request that the hook handler would count as a failure
      \cup {[d EXCEPT !.upgradeHeader = u,
                      !.hook = [DefaultRequest(1) EXCEPT !.tokenOk = FALSE]] :
              u \in {"websocket", "WebSocket", "WEBSOCKET"}}

UpgradeRequests ==
  LET d == [DefaultGwRequest EXCEPT !.upgradeHeader = "websocket"]
  IN  UNION {AuthInputs([d EXCEPT !.path = pa, !.vncEnabled = ve, !.canvasHost = ch,
                                  !.canvas = c]) :
               pa \in {"vncWs", "canvasWs", "other"}, ve \in BOOLEAN,
               ch \in BOOLEAN, c \in HandlerResults}

\* no request is being served
Idle == [kind |-> "idle", req |-> DefaultGwRequest, res |-> Served(0, "none", <<>>)]

\* the addresses of the connections the main WebSocket server has authenticated
RegistryIps == {"10.0.0.5", "203.0.113.7"}

\* handleRequest for one request, the hook handler's part included
HttpRequest ==
  /\ gwLast = Idle
  /\ \E req \in HttpRequests :
       LET h == Handled(req.hook)
           r == handleRequest(req, HandleHookRequest(req.hook, hookAuthFailures, now),
                              clients)
       IN  /\ isUpgradeRequest(req) \/ h.followed
           /\ gwLast' = [kind |-> "http", req |-> req, res |-> r]
           /\ viewerAuthorized' =
                IF r.by = "viewer" /\ r.status # 401 /\ r.status # 429
                  THEN viewerAuthorized \cup {req.clientIp}
                  ELSE viewerAuthorized
           /\ hookAuthFailures' = IF isUpgradeRequest(req) THEN hookAuthFailures ELSE h.table
           /\ keysSeen' = IF isUpgradeRequest(req) THEN keysSeen ELSE h.keysSeen
           /\ failuresInWindow' =
                IF isUpgradeRequest(req) THEN failuresInWindow ELSE h.failuresInWindow
           /\ evicted' = IF isUpgradeRequest(req) THEN evicted ELSE h.evicted
           /\ hookLast' = IF isUpgradeRequest(req) THEN hookLast ELSE h.last
  /\ UNCHANGED <<clients, now>>
  /\ UNCHANGED notGateway

\* the 'upgrade' listener for one upgrade
Upgrade ==
  /\ gwLast = Idle
  /\ \E req \in UpgradeRequests :
       gwLast' = [kind |-> "upgrade", req |-> req, res |-> handleUpgrade(req, clients)]
  /\ UNCHANGED <<clients, viewerAuthorized>>
  /\ UNCHANGED hookVars
  /\ UNCHANGED notGateway

\* the response is out: the record of the request is dropped
RequestCompletes ==
  /\ gwLast # Idle
  /\ gwLast' = Idle
  /\ hookLast' = NoRequest
  /\ UNCHANGED <<clients, viewerAuthorized>>
  /\ UNCHANGED <<hookAuthFailures, now, failuresInWindow, evicted, keysSeen>>
  /\ UNCHANGED notGateway

\* the main WebSocket server authenticates a connection and adds it
ClientConnects ==
  /\ gwLast = Idle
  /\ \E ip \in RegistryIps \ clients : clients' = clients \cup {ip}
  /\ UNCHANGED <<viewerAuthorized, gwLast>>
  /\ UNCHANGED hookVars
  /\ UNCHANGED notGateway

\* an authenticated connection closes and is removed
ClientCloses ==
  /\ gwLast = Idle
  /\ \E ip \in clients : clients' = clients \ {ip}
  /\ UNCHANGED <<viewerAuthorized, gwLast>>
  /\ UNCHANGED hookVars
  /\ UNCHANGED notGateway

GatewayNext ==
  \/ HttpRequest
  \/ Upgrade
  \/ RequestCompletes
  \/ ClientConnects
  \/ ClientCloses

(***************************************************************************)
(* The static assets of the viewer library (part_000, lines 142-148 and    *)
(* 736-768).  A path is the sequence of its characters.                    *)
(***************************************************************************)

NUL == "0"

\* the characters a requested asset path is made of
PathChars == {"/", ".", "r", NUL}

RECURSIVE SeqsUpTo(_, _)
\* the sequences over S of length at most n
SeqsUpTo(S, n) ==
  IF n = 0 THEN {<<>>}
  ELSE LET shorter == SeqsUpTo(S, n - 1)
       IN  shorter \cup {Append(q, c) : q \in {x \in shorter : Len(x) = n - 1}, c \in S}

\* rel: what follows the assets prefix in the request path
AssetPaths == SeqsUpTo(PathChars, MaxRelLen)

\* noVncRoot as resolveBundledNoVncRoot returns it: absolute and normalized
NoVncRoot == <<"/", "r">>

\* the regular files of the machine: two below the root, the others not
RegularFiles ==
  {<<"/", "r", "/", "r">>, <<"/", "r", "/", "r", "r">>, <<"/", "r", "/", ".", "r">>,
   <<"/", "r", "r">>, <<"/", ".", "r">>, <<"/", "r", ".">>}

\* String.prototype.startsWith
startsWith(s, prefix) ==
  /\ Len(prefix) <= Len(s)
  /\ \A i \in 1..Len(prefix) : s[i] = prefix[i]

\* String.prototype.includes for one character
includes(s, c) == \E i \in 1..Len(s) : s[i] = c

RECURSIVE Split(_)
\* the segments of a path, split at "/"
Split(s) ==
  IF s = <<>> THEN << <<>> >>
  ELSE LET r == Split(Tail(s))
       IN  IF Head(s) = "/" THEN << <<>> >> \o r
           ELSE << <<Head(s)>> \o r[1] >> \o Tail(r)

RECURSIVE JoinSegments(_)
JoinSegments(segs) ==
  IF segs = <<>> THEN <<>>
  ELSE IF Len(segs) = 1 THEN segs[1]
  ELSE segs[1] \o <<"/">> \o JoinSegments(Tail(segs))

DotDot == <<".", ".">>

RECURSIVE normalizeString(_, _, _)
\* node's normalizeString: "" and "." are dropped, ".." takes back the segment
\* before it, or stays when there is none to take back and the path is relative
normalizeString(segs, res, allowAboveRoot) ==
  IF segs = <<>> THEN res
  ELSE LET g == Head(segs)
           rest == Tail(segs)
       IN  IF g = <<>> \/ g = <<".">> THEN normalizeString(rest, res, allowAboveRoot)
           ELSE IF g = DotDot
             THEN IF res # <<>> /\ res[Len(res)] # DotDot
                    THEN normalizeString(rest, SubSeq(res, 1, Len(res) - 1),
                                         allowAboveRoot)
                  ELSE IF allowAboveRoot
                    THEN normalizeString(rest, Append(res, g), allowAboveRoot)
                  ELSE normalizeString(rest, res, allowAboveRoot)
           ELSE normalizeString(rest, Append(res, g), allowAboveRoot)

\* path.posix.normalize
normalize(p) ==
  IF p = <<>> THEN <<".">>
  ELSE LET isAbsolute == p[1] = "/"
           trailingSeparator == p[Len(p)] = "/"
           body == JoinSegments(normalizeString(Split(p), <<>>, ~isAbsolute))
       IN  IF body = <<>>
             THEN IF isAbsolute THEN <<"/">>
                  ELSE IF trailingSeparator THEN <<".", "/">> ELSE <<".">>
           ELSE (IF isAbsolute THEN <<"/">> ELSE <<>>) \o body
                  \o (IF trailingSeparator THEN <<"/">> ELSE <<>>)

\* path.join of two paths, the first not empty: an empty one is left out
join(a, b) == IF b = <<>> THEN normalize(a) ELSE normalize(a \o <<"/">> \o b)

\* every path passes
isSafeAlways(rel) == TRUE

\* lines 142-148
isSafeNoVncAssetPath(rel) ==
  IF rel = <<>> \/ includes(rel, NUL) THEN FALSE
  ELSE LET normalized == normalize(rel)
       IN  ~(startsWith(normalized, <<".", ".", "/">>) \/ normalized = DotDot)

\* What serving an asset did: the status, the file read into the response
\* (<<>>: none), and the paths handed to fs.existsSync, fs.statSync and
\* fs.readFileSync.
AssetResponse(status, read, accessed) ==
  [status |-> status, read |-> read, accessed |-> accessed]

\* lines 736-768; root is noVncRoot (<<>>: null)
ServeAsset(root, rel, files) ==
  IF root = <<>> THEN AssetResponse(503, <<>>, {})
  ELSE IF ~isSafeNoVncAssetPath(rel) THEN AssetResponse(404, <<>>, {})
  ELSE LET filePath == join(root, rel)
       IN  IF ~startsWith(filePath, root) THEN AssetResponse(404, <<>>, {})
           ELSE IF filePath \notin files THEN AssetResponse(404, <<>>, {filePath})
           ELSE AssetResponse(200, filePath, {filePath})

NoAsset == [root |-> <<>>, rel |-> <<>>, res |-> AssetResponse(0, <<>>, {})]

\* one request for an asset, past the authorization
AssetRequest ==
  /\ assetLast = NoAsset
  /\ \E root \in {<<>>, NoVncRoot}, rel \in AssetPaths :
       assetLast' = [root |-> root, rel |-> rel,
                     res |-> ServeAsset(root, rel, RegularFiles)]
  /\ UNCHANGED notAssets

\* the response is out: the record of the request is dropped
AssetRequestCompletes ==
  /\ assetLast # NoAsset
  /\ assetLast' = NoAsset
  /\ UNCHANGED notAssets

AssetNext ==
  \/ AssetRequest
  \/ AssetRequestCompletes

(***************************************************************************)
(* The browser launcher (browser/routes/captcha.ts): launchOpenClawChrome  *)
(* from the first spawn on (lines 576-711) and stopOpenClawChrome (lines   *)
(* 714-745).  An await is a step boundary: the child's 'exit' event, the   *)
(* debugging endpoint and the passing of time move between the steps.      *)
(***************************************************************************)

CRASH_SIGNALS == {"SIGTRAP", "SIGABRT", "SIGSEGV", "SIGBUS", "SIGFPE"}

\* how a child can end: by a signal, or by itself with an exit code
ExitKinds == {"SIGSEGV", "SIGTERM", "SIGKILL", "code 0", "code 1"}

\* proc.exitCode: -1 stands for null (running, or ended by a signal)
ExitCodeOf(kind) == IF kind = "code 0" THEN 0 ELSE IF kind = "code 1" THEN 1 ELSE -1

\* a child as spawnOnce returns it; early: its uptime is below
\* EARLY_CRASH_WINDOW_MS
NewProc(role) ==
  [role |-> role, alive |-> TRUE, early |-> TRUE, killed |-> FALSE,
   exitCode |-> -1, ended |-> "none"]

\* subprocess.kill: delivered, and killed set, only while the child runs
KillProc(p) == IF p.alive THEN [p EXCEPT !.killed = TRUE] ELSE p

\* the child in the variable proc
Proc == chProcs[Len(chProcs)]

\* isChromeReachable: /json/version answered
isChromeReachable == cdpUp

\* lines 609-685: nukeCorruptedProfileData, cleanCrashReports, the bootstrap
\* run when the preferences are gone (it has ended when its wait is over),
\* and the retry spawn
Recover(needsRebootstrap) ==
  /\ chProcs' = chProcs
       \o (IF needsRebootstrap
             THEN <<[NewProc("bootstrap") EXCEPT !.alive = FALSE, !.killed = TRUE,
                                                 !.ended = "SIGTERM"]>>
             ELSE <<>>)
       \o <<NewProc("retry")>>
  /\ chLog' = chLog \o <<"nukeCorruptedProfileData", "cleanCrashReports">>
       \o (IF needsRebootstrap THEN <<"spawn bootstrap">> ELSE <<>>)
       \o <<"spawn retry">>
  /\ earlyCrashDetected' = FALSE
  /\ readyDeadlinePassed' = FALSE
  /\ chPc' = "waiting for retry"

\* lines 607-609 and 687: past the first wait
AfterFirstWait ==
  IF earlyCrashDetected
    THEN \E needsRebootstrap \in BOOLEAN : Recover(needsRebootstrap)
    ELSE /\ chPc' = "final check"
         /\ UNCHANGED <<chProcs, chLog, earlyCrashDetected, readyDeadlinePassed>>

\* lines 576-592: the first spawn
Launch ==
  /\ chPc = "idle"
  /\ chProcs' = <<NewProc("launch")>>
  /\ chLog' = <<"spawn launch">>
  /\ chPc' = "waiting"
  /\ UNCHANGED <<earlyCrashDetected, earlyCrashSignal, readyDeadlinePassed, cdpUp,
                 wsUp, crashedEarly, stopPc, stopTimedOut, stopPolled>>
  /\ UNCHANGED notChrome

\* lines 594-605: one turn of the first wait
WaitForCdp ==
  /\ chPc = "waiting"
  /\ IF readyDeadlinePassed \/ earlyCrashDetected \/ isChromeReachable
       THEN AfterFirstWait
       ELSE UNCHANGED <<chPc, chProcs, chLog, earlyCrashDetected,
                        readyDeadlinePassed>>
  /\ UNCHANGED <<earlyCrashSignal, cdpUp, wsUp, crashedEarly, stopPc,
                 stopTimedOut, stopPolled>>
  /\ UNCHANGED notChrome

\* lines 678-684: one turn of the wait for the retry
WaitForCdpAgain ==
  /\ chPc = "waiting for retry"
  /\ chPc' = IF readyDeadlinePassed \/ isChromeReachable THEN "final check" ELSE chPc
  /\ UNCHANGED <<chProcs, chLog, earlyCrashDetected, earlyCrashSignal,
                 readyDeadlinePassed, cdpUp, wsUp, crashedEarly, stopPc,
                 stopTimedOut, stopPolled>>
  /\ UNCHANGED notChrome

\* lines 687-711: the last look at the endpoint, then the handle or the error
FinalCheck ==
  /\ chPc = "final check"
  /\ IF isChromeReachable
       THEN /\ chPc' = "returned"
            /\ chLog' = Append(chLog, "return")
            /\ UNCHANGED chProcs
       ELSE /\ chPc' = "failed"
            /\ chLog' = chLog \o <<"kill SIGKILL", "throw">>
            /\ chProcs' = [chProcs EXCEPT ![Len(chProcs)] = KillProc(Proc)]
  /\ UNCHANGED <<earlyCrashDetected, earlyCrashSignal, readyDeadlinePassed, cdpUp,
                 wsUp, crashedEarly, stopPc, stopTimedOut, stopPolled>>
  /\ UNCHANGED notChrome

\* The child in proc ends.  onEarlyExit (lines 584-591) is the listener of the
\* first child; the listener of the retry (lines 668-675) only logs.
ChildExits ==
  /\ chProcs # <<>>
  /\ Proc.alive
  /\ \E kind \in ExitKinds :
       /\ kind = "SIGKILL" => Proc.killed
       /\ chProcs' = [chProcs EXCEPT ![Len(chProcs)] =
                        [Proc EXCEPT !.alive = FALSE, !.ended = kind,
                                     !.exitCode = ExitCodeOf(kind)]]
       /\ IF Proc.role = "launch" /\ Proc.early /\ kind \in CRASH_SIGNALS
            THEN /\ earlyCrashDetected' = TRUE
                 /\ earlyCrashSignal' = kind
                 /\ crashedEarly' = (crashedEarly \/ chPc \in {"waiting", "final check"})
            ELSE UNCHANGED <<earlyCrashDetected, earlyCrashSignal, crashedEarly>>
  /\ cdpUp' = FALSE
  /\ wsUp' = FALSE
  /\ UNCHANGED <<chPc, chLog, readyDeadlinePassed, stopPc, stopTimedOut, stopPolled>>
  /\ UNCHANGED notChrome

\* the child starts to answer /json/version
EndpointAnswers ==
  /\ chProcs # <<>>
  /\ Proc.alive
  /\ ~cdpUp
  /\ cdpUp' = TRUE
  /\ UNCHANGED <<chPc, chProcs, chLog, earlyCrashDetected, earlyCrashSignal,
                 readyDeadlinePassed, wsUp, crashedEarly, stopPc, stopTimedOut,
                 stopPolled>>
  /\ UNCHANGED notChrome

\* the child starts to accept WebSocket handshakes on the advertised URL
WebSocketAccepts ==
  /\ cdpUp
  /\ ~wsUp
  /\ wsUp' = TRUE
  /\ UNCHANGED <<chPc, chProcs, chLog, earlyCrashDetected, earlyCrashSignal,
                 readyDeadlinePassed, cdpUp, crashedEarly, stopPc, stopTimedOut,
                 stopPolled>>
  /\ UNCHANGED notChrome

\* EARLY_CRASH_WINDOW_MS (5 s) have passed since the spawn of the child in proc
EarlyWindowPasses ==
  /\ chProcs # <<>>
  /\ Proc.early
  /\ chProcs' = [chProcs EXCEPT ![Len(chProcs)] = [Proc EXCEPT !.early = FALSE]]
  /\ UNCHANGED <<chPc, chLog, earlyCrashDetected, earlyCrashSignal,
                 readyDeadlinePassed, cdpUp, wsUp, crashedEarly, stopPc,
                 stopTimedOut, stopPolled>>
  /\ UNCHANGED notChrome

\* the 30 s of readyDeadline have passed
ReadyDeadlinePasses ==
  /\ chPc \in {"waiting", "waiting for retry"}
  /\ ~Proc.early
  /\ ~readyDeadlinePassed
  /\ readyDeadlinePassed' = TRUE
  /\ UNCHANGED <<chPc, chProcs, chLog, earlyCrashDetected, earlyCrashSignal, cdpUp,
                 wsUp, crashedEarly, stopPc, stopTimedOut, stopPolled>>
  /\ UNCHANGED notChrome

\* lines 714-727: stopOpenClawChrome up to its wait
StopChrome ==
  /\ chPc = "returned"
  /\ stopPc = "idle"
  /\ IF Proc.killed
       THEN /\ stopPc' = "returned"
            /\ UNCHANGED <<chProcs, chLog>>
       ELSE /\ stopPc' = "waiting"
            /\ chLog' = chLog \o <<"stopAllLocalProxies", "kill SIGTERM">>
            /\ chProcs' = [chProcs EXCEPT ![Len(chProcs)] = KillProc(Proc)]
  /\ UNCHANGED <<chPc, earlyCrashDetected, earlyCrashSignal, readyDeadlinePassed,
                 cdpUp, wsUp, crashedEarly, stopTimedOut, stopPolled>>
  /\ UNCHANGED notChrome

\* lines 729-744: one turn of the wait, and what follows it
StopWait ==
  /\ stopPc = "waiting"
  /\ IF stopTimedOut \/ ((Proc.exitCode \in {-1, 0}) /\ Proc.killed)
       THEN /\ stopPc' = "returned"
            /\ chLog' = Append(chLog, "kill SIGKILL")
            /\ chProcs' = [chProcs EXCEPT ![Len(chProcs)] = KillProc(Proc)]
            /\ UNCHANGED stopPolled
     ELSE IF ~isChromeReachable
       THEN /\ stopPc' = "returned"
            /\ stopPolled' = TRUE
            /\ UNCHANGED <<chLog, chProcs>>
     ELSE /\ stopPolled' = TRUE
          /\ UNCHANGED <<stopPc, chLog, chProcs>>
  /\ UNCHANGED <<chPc, earlyCrashDetected, earlyCrashSignal, readyDeadlinePassed,
                 cdpUp, wsUp, crashedEarly, stopTimedOut>>
  /\ UNCHANGED notChrome

\* timeoutMs (2.5 s) have passed since the SIGTERM
StopTimeoutPasses ==
  /\ stopPc = "waiting"
  /\ ~stopTimedOut
  /\ stopTimedOut' = TRUE
  /\ UNCHANGED <<chPc, chProcs, chLog, earlyCrashDetected, earlyCrashSignal,
                 readyDeadlinePassed, cdpUp, wsUp, crashedEarly, stopPc, stopPolled>>
  /\ UNCHANGED notChrome

ChromeNext ==
  \/ Launch
  \/ WaitForCdp
  \/ WaitForCdpAgain
  \/ FinalCheck
  \/ ChildExits
  \/ EndpointAnswers
  \/ WebSocketAccepts
  \/ EarlyWindowPasses
  \/ ReadyDeadlinePasses
  \/ StopChrome
  \/ StopWait
  \/ StopTimeoutPasses

(***************************************************************************)
(* The browser control service: the module variable `state`,              *)
(* startBrowserControlServiceFromConfig and stopBrowserControlService.     *)
(* Both functions are async: a call runs up to its next await in one step  *)
(* and other calls may run in between.                                     *)
(***************************************************************************)
Null == 0

\* What one step of the service did: the value a finished call returned
\* (Null when nothing was returned), whether `state` was assigned a new
\* object, whether ensureBrowserAvailable was called (the eager browser
\* spawn) and whether stopKnownBrowserProfiles was called (which signals the
\* running browsers).
ControlStep(op, returned, installed, ensured, stopped) ==
  [op |-> op, returned |-> returned, installed |-> installed,
   ensured |-> ensured, stopped |-> stopped]

\* startBrowserControlServiceFromConfig up to its first await:
\* `if (state) return state`, `if (!resolved.enabled) return null`, and
\* otherwise the call goes on to ensureBrowserControlAuth.
startAnew(st, enabled) ==
  IF enabled THEN [done |-> FALSE, returned |-> Null]
  ELSE [done |-> TRUE, returned |-> Null]

startBrowserControlServiceFromConfig(st, enabled) ==
  IF st # Null THEN [done |-> TRUE, returned |-> st]
  ELSE IF ~enabled THEN [done |-> TRUE, returned |-> Null]
  ELSE [done |-> FALSE, returned |-> Null]

\* stopBrowserControlService up to its first await: `if (!current) return`,
\* otherwise stopKnownBrowserProfiles is called.
stopWhatever(st) == [done |-> FALSE]

stopBrowserControlService(st) ==
  IF st = Null THEN [done |-> TRUE] ELSE [done |-> FALSE]

\* A call of startBrowserControlServiceFromConfig.
ControlStart ==
  /\ \E enabled \in BOOLEAN :
       LET r == startBrowserControlServiceFromConfig(state, enabled) IN
         IF r.done
         THEN /\ ctlLast' = ControlStep("start", r.returned, FALSE, FALSE, FALSE)
              /\ UNCHANGED ctlStarting
         ELSE /\ ctlStarting < MaxPending
              /\ stateObjects + ctlStarting < MaxStateObjects
              /\ ctlStarting' = ctlStarting + 1
              /\ ctlLast' = ControlStep("start suspends", Null, FALSE, FALSE, FALSE)
  /\ UNCHANGED <<state, stateObjects, ctlRelaying, ctlStopping>>
  /\ UNCHANGED notControl

\* ensureBrowserControlAuth has settled: `state = {...}`, then the call
\* waits for ensureExtensionRelayForProfiles.
ControlStartInstalls ==
  /\ ctlStarting > 0
  /\ ctlStarting' = ctlStarting - 1
  /\ stateObjects' = stateObjects + 1
  /\ state' = stateObjects + 1
  /\ ctlRelaying' = ctlRelaying + 1
  /\ ctlLast' = ControlStep("start installs", Null, TRUE, FALSE, FALSE)
  /\ UNCHANGED ctlStopping
  /\ UNCHANGED notControl

\* ensureExtensionRelayForProfiles has settled: ensureBrowserAvailable is
\* called without being awaited and the call returns the module variable.
ControlStartReturns ==
  /\ ctlRelaying > 0
  /\ ctlRelaying' = ctlRelaying - 1
  /\ ctlLast' = ControlStep("start returns", state, FALSE, TRUE, FALSE)
  /\ UNCHANGED <<state, stateObjects, ctlStarting, ctlStopping>>
  /\ UNCHANGED notControl

\* A call of stopBrowserControlService.
ControlStop ==
  /\ LET r == stopBrowserControlService(state) IN
       IF r.done
       THEN /\ ctlLast' = ControlStep("stop", Null, FALSE, FALSE, FALSE)
            /\ UNCHANGED ctlStopping
       ELSE /\ ctlStopping < MaxPending
            /\ ctlStopping' = ctlStopping + 1
            /\ ctlLast' = ControlStep("stop", Null, FALSE, FALSE, TRUE)
  /\ UNCHANGED <<state, stateObjects, ctlStarting, ctlRelaying>>
  /\ UNCHANGED notControl

\* stopKnownBrowserProfiles has settled: `state = null`, then the
\* Playwright connection is closed.
ControlStopResumes ==
  /\ ctlStopping > 0
  /\ ctlStopping' = ctlStopping - 1
  /\ state' = Null
  /\ ctlLast' = ControlStep("stop resumes", Null, FALSE, FALSE, FALSE)
  /\ UNCHANGED <<stateObjects, ctlStarting, ctlRelaying>>
  /\ UNCHANGED notControl

ControlNext ==
  \/ ControlStart
  \/ ControlStartInstalls
  \/ ControlStartReturns
  \/ ControlStop
  \/ ControlStopResumes

\* The two supervisors of the gateway process.  They share no variable, so a
\* step of one never changes what the other one can do or has done.  The
\* display supervisor is exercised while the control service has built no
\* state object and was at most asked to stop, and the control service while
\* the display supervisor has not been used; every state of either one is
\* still reached.
SupervisorsNext ==
  \/ stateObjects = 0 /\ ctlStarting = 0 /\ ctlLast.op \in {"init", "stop"} /\ VncNext
  \/ vncLast.op = "init" /\ ControlNext

(***************************************************************************)
(* The specifications: one per subsystem.                                  *)
(***************************************************************************)
Init ==
  \* the proxy session when attachVncProxy returns
  /\ upstream = "socket"
  /\ wsOpen = TRUE
  /\ destroyed = FALSE
  /\ upConnected = FALSE
  /\ upErrored = FALSE
  /\ upClosedEv = FALSE
  /\ readyState = WS_OPEN
  /\ wsErrored = FALSE
  /\ wsClosedEv = FALSE
  /\ destroyCalls = 0
  /\ closeCalls = 0
  /\ upRecv = <<>>
  /\ wsSent = <<>>
  /\ wsRecv = <<>>
  /\ upWritten = <<>>
  /\ handled = FALSE
  /\ lateData = FALSE
  /\ lateMsg = FALSE
  \* the supervisor after its constructor
  /\ xvfb = 0
  /\ x11vnc = 0
  /\ children = <<>>
  /\ stopping = FALSE
  /\ restartTimers = {}
  /\ pendingTimers = [k \in Kinds |-> 0]
  /\ followUp = 0
  /\ startsSuspended = 0
  /\ stopCleared = 0
  /\ stoppedAlready = FALSE
  /\ vncLast = [op |-> "init", kind |-> "none", spawned |-> FALSE,
                scheduled |-> FALSE, reused |-> FALSE]
  \* the hook handler when createHooksRequestHandler returns
  /\ hookAuthFailures = <<>>
  /\ now = 0
  /\ failuresInWindow = NoFailures
  /\ evicted = FALSE
  /\ keysSeen = Observed
  /\ hookLast = NoRequest
  \* the gateway when createGatewayHttpServer and attachGatewayUpgradeHandler return
  /\ clients = {}
  /\ viewerAuthorized = {}
  /\ gwLast = Idle
  /\ assetLast = NoAsset
  \* the launcher before launchOpenClawChrome is called
  /\ chPc = "idle"
  /\ chProcs = <<>>
  /\ chLog = <<>>
  /\ earlyCrashDetected = FALSE
  /\ earlyCrashSignal = "none"
  /\ readyDeadlinePassed = FALSE
  /\ cdpUp = FALSE
  /\ wsUp = FALSE
  /\ crashedEarly = FALSE
  /\ stopPc = "idle"
  /\ stopTimedOut = FALSE
  /\ stopPolled = FALSE
  \* the control service module when it has been loaded
  /\ state = Null
  /\ stateObjects = 0
  /\ ctlStarting = 0
  /\ ctlRelaying = 0
  /\ ctlStopping = 0
  /\ ctlLast = ControlStep("init", Null, FALSE, FALSE, FALSE)

SpecProxy == Init /\ [][ProxyNext]_vars

SpecVnc == Init /\ [][VncNext]_vars

SpecHooks == Init /\ [][HookNext]_vars

SpecHookPipeline == Init /\ [][HookPipelineNext]_vars

SpecGateway == Init /\ [][GatewayNext]_vars

SpecAssets == Init /\ [][AssetNext]_vars

SpecChrome == Init /\ [][ChromeNext]_vars

SpecControl == Init /\ [][ControlNext]_vars

SpecSupervisors == Init /\ [][SupervisorsNext]_vars

(***************************************************************************)
(* Claims about the framebuffer proxy.                                     *)
(***************************************************************************)
IsPrefix(a, b) == Len(a) <= Len(b) /\ SubSeq(b, 1, Len(a)) = a

RECURSIVE Concat(_)
Concat(seqs) == IF seqs = <<>> THEN <<>> ELSE Head(seqs) \o Concat(Tail(seqs))

\* Neither side has begun to close.
SessionOpen == wsOpen /\ readyState = WS_OPEN /\ upstream # "null" /\ ~destroyed

\* C1: whatever close/error/failure events arrive, the proxy calls
\* upstream.destroy() at most once and ws.close() at most once.
C1_TeardownAtMostOnce == destroyCalls <= 1 /\ closeCalls <= 1

\* Both calls were made and every close/error event of both sides arrived.
C1_Witness ==
  /\ destroyCalls = 1 /\ closeCalls = 1
  /\ upErrored /\ upClosedEv /\ wsErrored /\ wsClosedEv

\* C2: once a close or error event of either side has been handled, the
\* upstream socket is destroyed and the WebSocket is closing or closed.
C2_BothTornDown == handled => (destroyed /\ readyState >= WS_CLOSING)

\* The upstream connection was never established: its error closed the WebSocket.
C2_Witness ==
  /\ handled /\ upErrored /\ ~upConnected /\ ~wsClosedEv /\ ~wsErrored
  /\ closeCalls = 1 /\ readyState = WS_CLOSING

\* C3: after the WebSocket 'close' event nothing more is sent on the
\* WebSocket, and after the upstream socket is closed or destroyed nothing
\* more is written to it.
C3_NoWriteAfterClose ==
  [][/\ wsClosedEv => wsSent' = wsSent
     /\ (upClosedEv \/ destroyed) => upWritten' = upWritten]_vars

\* Data arrived after the WebSocket closed and a message after the socket was destroyed.
C3_Witness == lateData /\ lateMsg

\* C4: what was written upstream is a prefix of the bytes of the messages
\* received, what was sent on the WebSocket is a prefix of the chunks
\* received, and while the session is open both are complete.
C4_ForwardsInOrder ==
  /\ IsPrefix(wsSent, upRecv)
  /\ IsPrefix(upWritten, Concat(wsRecv))
  /\ SessionOpen => (wsSent = upRecv /\ upWritten = Concat(wsRecv))

\* An open session that forwarded a binary and a text message upstream and
\* two chunks downstream.
C4_Witness ==
  /\ SessionOpen
  /\ wsRecv = <<<<1, 2, 3>>, <<195, 169, 65>>>>
  /\ upWritten = <<1, 2, 3, 195, 169, 65>>
  /\ wsSent = <<<<255>>, <<1, 2>>>>

(***************************************************************************)
(* Claims about the display supervisor.                                    *)
(***************************************************************************)
NoTimerPending == \A k \in Kinds : pendingTimers[k] = 0

C8_RestartReplacesFailedChild ==
  [][/\ (vncLast'.op \in {"exit", "error"} /\ ~stopping)
          => pendingTimers'[vncLast'.kind] = 1
     /\ (vncLast'.op = "timer" /\ ~stopping)
          => \/ vncLast'.spawned
             \/ vncLast'.reused
             \/ LET h == IF vncLast'.kind = "xvfb" THEN xvfb' ELSE x11vnc'
                IN h # 0 /\ children'[h].st = "running"]_vars

(***************************************************************************)
(* Claims about the hook authentication failure table.                     *)
(***************************************************************************)
\* the request answered last was a failed authentication of the observed key
HookFailed == hookLast.key = Observed /\ hookLast.status \in {401, 429}

\* 401 up to the limit, 429 with Retry-After >= 1 beyond it
AnsweredByCount ==
  IF failuresInWindow.count > HOOK_AUTH_FAILURE_LIMIT
    THEN hookLast.status = 429 /\ hookLast.retryAfter >= 1
    ELSE hookLast.status = 401

\* C9 as stated: for every key, whatever other clients do, the failed attempts
\* of the key in one window are answered 401 up to HOOK_AUTH_FAILURE_LIMIT of
\* them, and every further one in the window is answered 429 with a
\* Retry-After of at least 1.  Violated: a failure from an untracked key that
\* finds the table full of running windows drops the oldest half, and a key
\* dropped that way is counted from 1 again.
C9_ThrottledAfterLimit == HookFailed => AnsweredByCount

\* C9, amended: the same, for a key whose entry the oldest-half eviction has
\* not removed since the key last authenticated: its failed attempts in one
\* window are answered 401 up to the limit and 429 with Retry-After >= 1
\* beyond it.
C9_ThrottledUnlessEvicted == HookFailed /\ ~evicted => AnsweredByCount

\* a key never evicted is throttled in the last millisecond of its window
\* while another client's entry sits in the table
C9_Witness ==
  /\ HookFailed
  /\ ~evicted
  /\ hookLast.status = 429
  /\ hookLast.retryAfter = 1
  /\ failuresInWindow.count = HOOK_AUTH_FAILURE_LIMIT + 1
  /\ Len(hookAuthFailures) > 1

\* C10: after any sequence of hook requests from any set of client keys the
\* failure table holds at most HOOK_AUTH_FAILURE_TRACK_MAX entries.
C10_TableBounded == Len(hookAuthFailures) <= HOOK_AUTH_FAILURE_TRACK_MAX

\* the table is full again after the oldest-half eviction has removed the
\* observed key's entry
C10_Witness ==
  /\ Len(hookAuthFailures) = HOOK_AUTH_FAILURE_TRACK_MAX
  /\ evicted
  /\ ~MapHas(hookAuthFailures, Observed)

(***************************************************************************)
(* Claims about the hook handler's pipeline.                               *)
(***************************************************************************)
DispatchCalls == {"dispatchWakeHook", "dispatchAgentHook"}

Dispatched(ev) == \E i \in 1..Len(ev) : ev[i] \in DispatchCalls

\* a dispatcher was called and returned before the response was written
CompletedBeforeResponse(ev) ==
  \E i \in 1..Len(ev), j \in 1..Len(ev) :
    /\ i + 1 < j
    /\ ev[i] \in DispatchCalls
    /\ ev[i + 1] = "returned"
    /\ ev[j] = "response"

\* C11 as stated: every 2xx response of the hook handler (200, 202 or 204) was
\* preceded in its request by a completed call of the wake or the agent
\* dispatcher.  Violated by 204, which answers a mapping that drops the
\* request and calls no dispatcher.
C11_SuccessAfterDispatch ==
  hookLast.status \in {200, 202, 204} => CompletedBeforeResponse(hookLast.events)

\* C11, amended: every 200 or 202 response of the hook handler was preceded in
\* its request by a completed call of the wake or the agent dispatcher, and a
\* 204 response is written without any dispatcher being called.
C11_DispatchedUnlessDropped ==
  /\ hookLast.status \in {200, 202} => CompletedBeforeResponse(hookLast.events)
  /\ hookLast.status = 204 => ~Dispatched(hookLast.events)

\* a mapped agent action answered 202 after dispatchAgentHook returned
C11_Witness ==
  /\ hookLast.status = 202
  /\ hookLast.req.subPath = "github"
  /\ hookLast.req.mapped = "agent"
  /\ hookLast.events = <<"dispatchAgentHook", "returned", "response">>

\* C12: a 4xx response of the hook handler (400, 401, 404, 405, 408, 413, 429)
\* was written in a request in which neither dispatcher was called, also when
\* the agent is not allowed or the session key cannot be resolved.
C12_NoDispatchOnClientError ==
  hookLast.status \in {400, 401, 404, 405, 408, 413, 429}
    => ~Dispatched(hookLast.events)

\* an agent request refused by the agent policy: 400 and nothing dispatched
C12_Witness ==
  /\ hookLast.status = 400
  /\ hookLast.req.tokenOk /\ ~hookLast.req.queryToken
  /\ hookLast.req.method = "POST" /\ hookLast.req.body = "ok"
  /\ hookLast.req.subPath = "agent" /\ hookLast.req.normOk
  /\ ~hookLast.req.agentAllowed
  /\ hookLast.events = <<"response">>

(***************************************************************************)
(* The gateway: authorization, the router and the upgrade listener.        *)
(***************************************************************************)

Called(ev, call) == \E i \in 1..Len(ev) : ev[i] = call

\* call a was made, and made before every call b
Before(ev, a, b) ==
  \E i \in 1..Len(ev) : ev[i] = a /\ \A j \in 1..i : ev[j] # b

Serving == gwLast.kind # "idle"

\* the request being served asked the machine-scoped authorizer
MachineAuthAsked == Serving /\ Called(gwLast.res.events, "authorizeMachineScoped")

\* and this is what the authorizer answered
MachineAuthOk ==
  /\ MachineAuthAsked
  /\ ~Called(gwLast.res.events, "sendGatewayAuthFailure")
  /\ ~Called(gwLast.res.events, "writeUpgradeAuthFailure")

BySibling ==
  /\ isPrivateOrLoopbackAddress(gwLast.req.clientIp)
  /\ gwLast.req.clientIp \in clients

\* C13 as stated: when the machine-scoped authorizer returns ok for a request
\* that presented no credential, the request was TLS-mesh-trusted (which the
\* authorizer never grants: allowTailscale is false, and without a token
\* authorizeGatewayConnect is not asked), or its effective client address was
\* private or loopback and the registry held an entry with the same address.
\* Violated by a local direct connection, which is accepted first of all.
C13_OkOnlyBySibling ==
  MachineAuthOk /\ ~gwLast.req.hasToken => BySibling

\* C13, amended: when the machine-scoped authorizer returns ok for a request
\* that presented no credential, the request was a local direct connection, or
\* its effective client address was private or loopback and the registry held
\* an entry with the same address at that moment.
C13_OkLocalOrBySibling ==
  MachineAuthOk /\ ~gwLast.req.hasToken => gwLast.req.isLocalDirect \/ BySibling

\* a request without credential from a private address was accepted on the
\* strength of a sibling connection, while the registry also held a public one
C13_Witness ==
  /\ MachineAuthOk
  /\ ~gwLast.req.hasToken
  /\ ~gwLast.req.isLocalDirect
  /\ BySibling
  /\ "203.0.113.7" \in clients

\* the credential of the request being served has not authorized it
CredentialFailed ==
  /\ ~gwLast.req.isLocalDirect
  /\ gwLast.req.hasToken => gwLast.req.tokenAuth # "ok"

\* machine-scoped authorization refused the request being served
Rejected ==
  \/ Called(gwLast.res.events, "sendGatewayAuthFailure")
  \/ Called(gwLast.res.events, "writeUpgradeAuthFailure")

\* C14: in machine-scoped authorization the registry of authenticated clients
\* is read only once the credential has not authorized the request (a token
\* that is presented has been put to authorizeGatewayConnect first and was
\* refused) and only for a private or loopback effective address; a request
\* from a public address that its credential has not authorized is rejected
\* without the registry being read.
C14_RegistryLastAndPrivateOnly ==
  MachineAuthAsked =>
    /\ Called(gwLast.res.events, "registry") =>
         /\ CredentialFailed
         /\ gwLast.req.hasToken =>
              Before(gwLast.res.events, "authorizeGatewayConnect", "registry")
         /\ isPrivateOrLoopbackAddress(gwLast.req.clientIp)
    /\ CredentialFailed /\ ~isPrivateOrLoopbackAddress(gwLast.req.clientIp) =>
         /\ ~Called(gwLast.res.events, "registry")
         /\ Rejected

\* a refused token from a private address was followed by a read of the
\* registry, which held a sibling of that address
C14_Witness ==
  /\ MachineAuthAsked
  /\ gwLast.req.hasToken
  /\ gwLast.req.tokenAuth = "unauthorized"
  /\ isPrivateOrLoopbackAddress(gwLast.req.clientIp)
  /\ Before(gwLast.res.events, "authorizeGatewayConnect", "registry")
  /\ MachineAuthOk

\* what the viewer subtree does: the redirect, the viewer page, the supervisor
\* API and its calls of the browser control service, an asset and its read
ViewerCalls ==
  {"viewerRedirect", "viewerHtml", "viewerApi", "viewerAsset", "readFileSync",
   "stopBrowserControlService", "startBrowserControlServiceFromConfig"}

\* C15: with the framebuffer viewer enabled, nothing of the viewer subtree (the
\* 301 redirect, the viewer HTML, a supervisor API action or status, a static
\* asset) is produced for a request unless machine-scoped authorization was
\* asked before and returned ok for it; when it refuses a request for the
\* subtree, the auth failure (401 or 429) is sent and nothing of the subtree
\* runs.
C15_ViewerBehindAuth ==
  gwLast.kind = "http" /\ gwLast.req.vncEnabled =>
    LET ev == gwLast.res.events
        ok == authorizeMachineScopedRequest(gwLast.req, clients).ok
    IN  /\ \A i \in 1..Len(ev) :
             ev[i] \in ViewerCalls =>
               /\ \E j \in 1..(i - 1) : ev[j] = "authorizeMachineScoped"
               /\ ok
        /\ gwLast.res.by = "viewer" => ok
        /\ MachineAuthAsked /\ gwLast.req.path \in ViewerPaths /\ ~ok =>
             /\ gwLast.res.status \in {401, 429}
             /\ gwLast.res.by = "router"
             /\ \A i \in 1..Len(ev) : ev[i] \notin ViewerCalls

\* an authorized POST to the supervisor API restarted the browser control
\* service
C15_Witness ==
  /\ gwLast.kind = "http"
  /\ gwLast.req.vncEnabled
  /\ gwLast.req.path = "vncApi"
  /\ MachineAuthOk
  /\ Called(gwLast.res.events, "stopBrowserControlService")
  /\ Called(gwLast.res.events, "startBrowserControlServiceFromConfig")
  /\ gwLast.res.status = 200

\* C16: whenever an upgrade on the framebuffer WS path is handed to the
\* framebuffer proxy, an HTTP request for the viewer subtree from the same
\* client has passed machine-scoped authorization before.  Violated: the
\* upgrade listener hands the upgrade over without looking at the client.
C16_ProxyAfterAuthorizedViewer ==
  gwLast.kind = "upgrade" /\ gwLast.res.to = "vncProxy" =>
    gwLast.req.clientIp \in viewerAuthorized

\* the upgrade being served went on to the canvas handler or the main server
HandedOnward ==
  \/ gwLast.res.to # "none"
  \/ Called(gwLast.res.events, "canvasHost")
  \/ Called(gwLast.res.events, "wss")

RateLimited == gwLast.req.hasToken /\ gwLast.req.tokenAuth = "rate_limited"

HandlerRank(e, documented) ==
  IF e = "hooks" THEN 1
  ELSE IF e = "tools" THEN 2
  ELSE IF e = "slack" THEN 3
  ELSE IF e = "plugin" THEN 4
  ELSE IF e = "openAi" THEN (IF documented THEN 5 ELSE 6)
  ELSE IF e = "openResponses" THEN (IF documented THEN 6 ELSE 5)
  ELSE IF e \in ViewerCalls THEN 7
  ELSE IF e = "a2ui" THEN 8
  ELSE IF e = "canvasHost" THEN 9
  ELSE IF e = "avatar" THEN 10
  ELSE IF e = "controlUi" THEN (IF documented THEN 10 ELSE 11)
  ELSE IF e = "notFound" THEN 12
  ELSE 0

\* the handler behind call e reports that it handled the request being served
ReportsHandled(e) ==
  \/ e = "hooks" /\ hookLast.status # 0
  \/ e = "tools" /\ gwLast.req.tools = "handled"
  \/ e = "slack" /\ gwLast.req.slack = "handled"
  \/ e = "plugin" /\ gwLast.req.plugin = "handled"
  \/ e = "openAi" /\ gwLast.req.openAi = "handled"
  \/ e = "openResponses" /\ gwLast.req.openResponses = "handled"
  \/ e \in {"viewerRedirect", "viewerHtml", "viewerApi", "viewerAsset"}
  \/ e = "a2ui" /\ gwLast.req.a2ui = "handled"
  \/ e = "canvasHost" /\ gwLast.req.canvas = "handled"
  \/ e = "avatar" /\ gwLast.req.avatar = "handled"
  \/ e = "controlUi" /\ gwLast.req.controlUi = "handled"

\* the handlers were tried in the order of their ranks, none twice, and none
\* after one that reported handled
RouterOrder(documented) ==
  gwLast.kind = "http" /\ ~isUpgradeRequest(gwLast.req) =>
    LET ev == gwLast.res.events
        rank(i) == HandlerRank(ev[i], documented)
    IN  \A i \in 1..Len(ev), j \in 1..Len(ev) :
          i < j /\ rank(i) > 0 /\ rank(j) > 0 =>
            /\ rank(i) <= rank(j)
            /\ ev[i] # ev[j]
            /\ ~ReportsHandled(ev[i])

\* C18 as stated: within one non-upgrade request the router tries the handlers
\* in the documented order (hooks, tool invocation, Slack, plugin, OpenAI-style
\* then Responses-style, viewer subtree, canvas host, control UI and avatar,
\* fallback 404) and invokes none after one has reported handled.  Violated:
\* the Responses-style handler is tried before the OpenAI-style one.
C18_DocumentedOrder == RouterOrder(TRUE)

\* C18, amended: within one non-upgrade request the router tries the handlers
\* in the order hooks, tool invocation, Slack, plugin, Responses-style,
\* OpenAI-style, viewer subtree, canvas host (A2UI, then the host), avatar,
\* control UI, fallback 404, and invokes none after one has reported handled.
C18_RouterOrder == RouterOrder(FALSE)

\* the Responses-style handler passed, the OpenAI-style handler took the
\* request, and the control UI, which would have taken it too, was not tried
C18_Witness ==
  /\ gwLast.kind = "http"
  /\ Before(gwLast.res.events, "openResponses", "openAi")
  /\ Called(gwLast.res.events, "openAi")
  /\ gwLast.res.by = "openAi"
  /\ gwLast.req.controlUi = "handled"
  /\ ~Called(gwLast.res.events, "controlUi")

\* C19: a non-upgrade request that is the hook handler's (hooks configured,
\* path under the hooks base path) reaches neither the gateway authorizer nor
\* any later handler: the router calls the hook handler and nothing else, the
\* response is the hook handler's own, and with a valid hook token it is no
\* 401 and no 429.
C19_HookRequestsStopAtHooks ==
  /\ gwLast.kind = "http"
  /\ ~isUpgradeRequest(gwLast.req)
  /\ gwLast.req.hook.configured
  /\ gwLast.req.hook.inBasePath
  => LET ev == gwLast.res.events
     IN  /\ \A i \in 1..Len(ev) : ev[i] \in {"hooks", "internalError"}
         /\ hookLast.status # 0 =>
              /\ gwLast.res.by = "hooks"
              /\ gwLast.res.status = hookLast.status
         /\ gwLast.req.hook.tokenOk /\ ~gwLast.req.hook.queryToken =>
              gwLast.res.status \notin {401, 429}

\* a wake request with a valid hook token for a channels path was answered 200
\* by the hook handler, although the gateway authorizer would have refused it
\* and the plugin would have taken it
C19_Witness ==
  /\ gwLast.kind = "http"
  /\ gwLast.req.hook.configured
  /\ gwLast.req.hook.inBasePath
  /\ gwLast.req.hook.tokenOk
  /\ gwLast.req.path = "channels"
  /\ gwLast.req.gatewayAuth = "unauthorized"
  /\ gwLast.req.plugin = "handled"
  /\ gwLast.res.by = "hooks"
  /\ gwLast.res.status = 200
  /\ hookLast.status = 200

\* C20: for a request whose path begins with the channels prefix the plugin
\* handler is invoked only after the full gateway authorizer was asked and
\* returned ok; when the authorizer refuses, the auth failure (401 or 429) is
\* sent and the plugin handler does not run.
C20_ChannelsBehindGatewayAuth ==
  gwLast.kind = "http" /\ gwLast.req.path = "channels" =>
    LET ev == gwLast.res.events
    IN  /\ Called(ev, "plugin") =>
             /\ Before(ev, "authorizeGatewayConnect", "plugin")
             /\ gwLast.req.gatewayAuth = "ok"
        /\ /\ gwLast.req.hasPlugin
           /\ Called(ev, "slack")
           /\ gwLast.req.slack = "pass"
           /\ gwLast.req.gatewayAuth # "ok"
           => /\ ~Called(ev, "plugin")
              /\ Called(ev, "sendGatewayAuthFailure")
              /\ gwLast.res.by = "router"
              /\ gwLast.res.status =
                   (IF gwLast.req.gatewayAuth = "rate_limited" THEN 429 ELSE 401)

\* a channels request reached the plugin stage, the gateway authorizer
\* refused it, and the plugin, which would have taken it, did not run
C20_Witness ==
  /\ gwLast.kind = "http"
  /\ gwLast.req.path = "channels"
  /\ gwLast.req.hasPlugin
  /\ gwLast.req.plugin = "handled"
  /\ gwLast.req.gatewayAuth = "unauthorized"
  /\ Called(gwLast.res.events, "authorizeGatewayConnect")
  /\ ~Called(gwLast.res.events, "plugin")
  /\ gwLast.res.status = 401

\* a handler that the router called for the request being served threw
HandlerThrew ==
  LET ev == gwLast.res.events
      req == gwLast.req
  IN  \/ Called(ev, "internalError")
      \/ /\ req.serviceThrows
         /\ \/ Called(ev, "stopBrowserControlService")
            \/ Called(ev, "startBrowserControlServiceFromConfig")

\* C21: an error thrown while a non-upgrade request is served becomes a 500
\* response whose body carries no detail of the exception, in the router's
\* catch and inside the viewer subtree alike.  Violated: the supervisor API
\* answers 500 with the message of the Error that was thrown.
C21_ErrorsBecomeOpaque500 ==
  gwLast.kind = "http" /\ HandlerThrew =>
    /\ gwLast.res.status = 500
    /\ gwLast.res.body # "err.message"

(***************************************************************************)
(* The static assets of the viewer.                                        *)
(***************************************************************************)

\* path p is the directory root or lies below it
Inside(root, p) == p = root \/ startsWith(p, root \o <<"/">>)

\* an asset request was answered by a gateway that has the viewer library
AssetServed == assetLast # NoAsset /\ assetLast.root # <<>>

C23_ServedIffSafe ==
  AssetServed =>
    LET rel == assetLast.rel
        normalized == normalize(rel)
    IN  assetLast.res.status = 200 <=>
          /\ ~includes(rel, NUL)
          /\ ~startsWith(normalized, <<".", ".", "/">>)
          /\ normalized # DotDot
          /\ startsWith(join(assetLast.root, rel), assetLast.root)

\* C23, amended: rel is served if and only if it contains no NUL, its
\* normalized form does not start with "../" and is not "..", the resolved
\* path has the root as a prefix, and the resolved path is a regular file;
\* what is served is the file at the resolved path.
C23_ServedIffSafeAndPresent ==
  AssetServed =>
    LET rel == assetLast.rel
        normalized == normalize(rel)
        resolved == join(assetLast.root, rel)
    IN  /\ assetLast.res.status = 200 <=>
             /\ ~includes(rel, NUL)
             /\ ~startsWith(normalized, <<".", ".", "/">>)
             /\ normalized # DotDot
             /\ startsWith(resolved, assetLast.root)
             /\ resolved \in RegularFiles
        /\ assetLast.res.status = 200 => assetLast.res.read = resolved

\* "r/../r" was served as the file "/r/r"
C23_Witness ==
  /\ AssetServed
  /\ assetLast.rel = <<"r", "/", ".", ".", "/", "r">>
  /\ assetLast.res.status = 200
  /\ assetLast.res.read = <<"/", "r", "/", "r">>

(***************************************************************************)
(* The browser launcher.                                                   *)
(***************************************************************************)

\* how often the launcher did e
Times(e) == Cardinality({i \in 1..Len(chLog) : chLog[i] = e})

LaunchOver == chPc \in {"returned", "failed"}

\* C24: in one call of launchOpenClawChrome the recovery from a corrupted
\* profile runs at most once and no third launch is made; and when the first
\* child exits within 5 s of its spawn with a crash signal, the cleanup
\* targets are deleted and exactly one retry is spawned.  Violated: a first
\* child that crashes after the endpoint has answered once, while the last
\* look at the endpoint is under way, is not recovered from.
C24_RecoveryOnceOnEarlyCrash ==
  LaunchOver =>
    /\ Times("nukeCorruptedProfileData") <= 1
    /\ Times("spawn launch") + Times("spawn retry") <= 2
    /\ crashedEarly =>
         /\ Times("nukeCorruptedProfileData") = 1
         /\ Times("spawn retry") = 1

\* C25: launchOpenClawChrome returns a handle only after the debugging endpoint
\* was ready, i.e. /json/version answered and a WebSocket handshake with the
\* advertised URL succeeded.  Violated: only /json/version is asked, so a
\* handle is returned for a child that has accepted no WebSocket handshake in
\* its life.
C25_HandleOnlyWhenReady ==
  chPc = "returned" /\ Proc.alive => cdpUp /\ wsUp

\* the position of the last e in the log, 0 if there is none
LastOf(e) ==
  LET at == {i \in 1..Len(chLog) : chLog[i] = e}
  IN  IF at = {} THEN 0 ELSE CHOOSE i \in at : \A j \in at : j <= i

\* C26: stopOpenClawChrome sends SIGTERM, then waits up to 2.5 s while it asks
\* whether the endpoint still answers, and sends SIGKILL only when that wait
\* has run out.  Violated: once the SIGTERM is delivered proc.killed is true
\* and proc.exitCode is null, the wait is left in its first turn, and SIGKILL
\* follows at once.
C26_KillOnlyAfterWait ==
  /\ stopPc = "returned"
  /\ LastOf("kill SIGTERM") > 0
  /\ LastOf("kill SIGKILL") > LastOf("kill SIGTERM")
  => stopTimedOut

(***************************************************************************)
(* Claims about stopping and starting the supervisors.                     *)
(***************************************************************************)
\* C27: stopping a supervisor that is already stopped does nothing.  A stop()
\* of the display supervisor that finds the flag set, no timer and no child
\* handle signals no child, arms no timeout and leaves the supervisor as it
\* was; a stopBrowserControlService that finds no state object does not call
\* stopKnownBrowserProfiles, suspends nowhere and leaves the service as it
\* was.
C27_SecondStopIsNoOp ==
  [][/\ (IsStopped(Sup) /\ vncLast'.op = "stop")
          => /\ Sup' = Sup
             /\ startsSuspended' = startsSuspended
             /\ ~vncLast'.spawned /\ ~vncLast'.scheduled
     /\ (state = Null /\ ctlLast'.op = "stop")
          => /\ ~ctlLast'.stopped /\ ~ctlLast'.installed /\ ~ctlLast'.ensured
             /\ UNCHANGED <<state, stateObjects, ctlStarting, ctlRelaying,
                            ctlStopping>>]_vars

\* The supervisor was started, stopped and stopped again while a child it had
\* signalled was still there, and the control service was asked to stop
\* without a state object.
C27_Witness ==
  /\ vncLast.op = "stop" /\ stoppedAlready
  /\ \E id \in 1..Len(children) : children[id].st = "killed"
  /\ ctlLast.op = "stop" /\ ~ctlLast.stopped /\ state = Null

\* C28: startBrowserControlServiceFromConfig called while a state object
\* exists returns that very object at once: it assigns no new object to
\* `state`, does not call ensureBrowserAvailable and suspends nowhere.
C28_StartReturnsExistingState ==
  [][(state # Null /\ ctlLast'.op \in {"start", "start suspends"})
       => /\ ctlLast' = ControlStep("start", state, FALSE, FALSE, FALSE)
          /\ UNCHANGED <<state, stateObjects, ctlStarting, ctlRelaying,
                         ctlStopping>>]_vars

\* A start found a state object and returned it.
C28_Witness ==
  /\ ctlLast.op = "start"
  /\ ctlLast.returned # Null
  /\ ctlLast.returned = state

(***************************************************************************)
(* Claims about the token of a hook request.                               *)
(***************************************************************************)
Names(text, word) == \E i \in 1..Len(text) : text[i] = word

\* C29: a request under the hooks base path whose query string has a token
\* parameter is answered 400 with a text that names the Authorization header
\* and the X-OpenClaw-Token header, whether the token of its headers is the
\* right one or not, and neither dispatcher is called; the failure table is
\* not touched either.
C29_QueryTokenRefused ==
  (hookLast.req.configured /\ hookLast.req.inBasePath /\ hookLast.req.queryToken)
    => /\ hookLast.status = 400
       /\ Names(hookLast.text, "Authorization")
       /\ Names(hookLast.text, "X-OpenClaw-Token")
       /\ ~Dispatched(hookLast.events)
       /\ hookLast.key = 0

\* A POST to the wake path with a readable body and the right token, refused
\* for the token parameter of its query string.
C29_Witness ==
  /\ hookLast.req.queryToken /\ hookLast.req.tokenOk
  /\ hookLast.req.method = "POST" /\ hookLast.req.subPath = "wake"
  /\ hookLast.req.body = "ok" /\ hookLast.req.normOk
  /\ hookLast.status = 400
  /\ hookLast.text = QueryTokenText

\* C30: a request whose token is accepted leaves the table without an entry
\* of its key, and a refused token of a key right after such a removal is
\* counted like the first failure the key ever had: the entry has count 1
\* and a window that starts at the time of the failure, and the answer is
\* 401, not 429.
C30_FailureAfterClearIsFirst ==
  /\ (hookLast.key # 0 /\ hookLast.status \notin {0, 401, 429})
       => ~MapHas(hookAuthFailures, hookLast.key)
  /\ hookLast.afterClear
       => /\ hookLast.status = 401
          /\ hookLast.retryAfter = 0
          /\ MapHas(hookAuthFailures, hookLast.key)
          /\ MapGet(hookAuthFailures, hookLast.key).count = 1
          /\ MapGet(hookAuthFailures, hookLast.key).windowStartedAtMs = now

\* Late in a window a key that had failed was accepted, which removed its
\* entry, and then failed again: the entry is a new one that starts at the
\* time of this failure.
C30_Witness ==
  /\ hookLast.afterClear
  /\ hookLast.key = Observed
  /\ now = HOOK_AUTH_FAILURE_WINDOW_MS - 1
  /\ MapGet(hookAuthFailures, Observed).windowStartedAtMs = now

(***************************************************************************)
(* Claims about upgrade requests on the HTTP side.                         *)
(***************************************************************************)
\* C31: a request whose Upgrade header is "websocket" in any mix of upper
\* and lower case leaves handleRequest at once: no handler is called, the
\* hook handler included, no authorizer and no rate limiter is asked, no
\* response is written, and the hook failure table and the set of addresses
\* the viewer has authorized stay as they were.
C31_UpgradeLeavesHttpAlone ==
  [][(/\ gwLast = Idle
      /\ gwLast'.kind = "http"
      /\ gwLast'.req.upgradeHeader \in {"websocket", "WebSocket", "WEBSOCKET"})
       => /\ gwLast'.res.events = <<>>
          /\ gwLast'.res.status = 0
          /\ gwLast'.res.by = "none"
          /\ gwLast'.res.body = ""
          /\ UNCHANGED <<hookVars, viewerAuthorized, clients>>]_vars

\* A request with the header in mixed case, a wrong hook token and the hooks
\* path went through the router; the hook handler would have counted it.
C31_Witness ==
  /\ gwLast.kind = "http"
  /\ gwLast.req.upgradeHeader = "WebSocket"
  /\ gwLast.req.hook.configured /\ gwLast.req.hook.inBasePath
  /\ ~gwLast.req.hook.tokenOk /\ ~gwLast.req.hook.queryToken
  /\ gwLast.res.events = <<>>
  /\ hookAuthFailures = <<>>

(***************************************************************************)
(* Claims about the children of the display supervisor.                    *)
(***************************************************************************)
\* the step is the exit of a child of `kind` that the supervisor had signalled
ExitOfSignalled(kind) ==
  /\ vncLast'.op = "exit" /\ vncLast'.kind = kind
  /\ \E id \in 1..Len(children) :
       /\ children[id].kind = kind
       /\ children[id].st = "killed"
       /\ children'[id].st = "exited"

\* C32 as claimed: when the 2 s timeout of a display restart fires while the
\* supervisor is not stopping, the x11vnc child is stopped and a new one is
\* spawned and owned; and the exit of the child stopped on purpose, coming
\* right after, neither takes the new child away from the supervisor nor arms
\* an x11vnc restart.
C32_OneX11vncAfterDisplayRestart ==
  [][/\ (vncLast'.op = "followup" /\ ~stopping)
          => /\ vncLast'.spawned
             /\ x11vnc' = Len(children')
             /\ children'[x11vnc'] = [kind |-> "x11vnc", st |-> "running"]
             /\ x11vnc # 0 => children'[x11vnc].st # "running"
     /\ (vncLast.op = "followup" /\ ~stopping /\ ExitOfSignalled("x11vnc"))
          => /\ x11vnc' = x11vnc
             /\ ~vncLast'.scheduled
             /\ pendingTimers'["x11vnc"] = pendingTimers["x11vnc"]]_vars

(***************************************************************************)
(* Claims about the order of the steps of the hook handler.                *)
(***************************************************************************)
\* The statuses the documented order allows for a request, by its first
\* failing step; {} when none of these steps fails.
FirstFailure(req) ==
  IF req.queryToken THEN {400}
  ELSE IF ~req.tokenOk THEN {401, 429}
  ELSE IF req.method # "POST" THEN {405}
  ELSE IF req.subPath = "" THEN {404}
  ELSE IF req.body = "payload too large" THEN {413}
  ELSE IF req.body = "request body timeout" THEN {408}
  ELSE IF req.body # "ok" THEN {400}
  ELSE {}

\* C33: a request under the hooks base path is answered with the outcome of
\* its first failing step in the order query token, token, method, sub-path,
\* body; a request with a wrong token is answered 401 or 429 and leaves a
\* failure entry for its key, whatever its method, sub-path and body are.
C33_FirstFailingStepAnswers ==
  (hookLast.req.configured /\ hookLast.req.inBasePath)
    => /\ FirstFailure(hookLast.req) # {} => hookLast.status \in FirstFailure(hookLast.req)
       /\ (~hookLast.req.queryToken /\ ~hookLast.req.tokenOk)
            => /\ hookLast.key # 0
               /\ MapHas(hookAuthFailures, hookLast.key)
               /\ MapGet(hookAuthFailures, hookLast.key).count >= 1
               /\ ~Dispatched(hookLast.events)

\* A GET with a wrong token, no sub-path and an unreadable body was answered
\* 401 and counted.
C33_Witness ==
  /\ hookLast.req.method = "GET" /\ ~hookLast.req.tokenOk /\ ~hookLast.req.queryToken
  /\ hookLast.req.subPath = "" /\ hookLast.req.body = "invalid json"
  /\ hookLast.status = 401
  /\ MapGet(hookAuthFailures, hookLast.key).count = 1

(***************************************************************************)
(* Claims about the order of the hook failure table.                       *)
(***************************************************************************)
\* the place of a key in the insertion order of a table
Pos(m, k) == CHOOSE i \in 1..Len(m) : m[i].key = k

\* the entries of the table whose window is still running, in table order
Unexpired(m, nowMs) ==
  SelectSeq(m, LAMBDA e : nowMs - e.windowStartedAtMs < HOOK_AUTH_FAILURE_WINDOW_MS)

\* the step records an authentication failure
RecordsFailure ==
  /\ hookLast'.status \in {401, 429}
  /\ hookAuthFailures' # hookAuthFailures

\* the keys the step removes from the table
Removed == MapKeys(hookAuthFailures) \ MapKeys(hookAuthFailures')

\* the keys other than the recorded one that the step keeps
Retained == (MapKeys(hookAuthFailures) \cap MapKeys(hookAuthFailures')) \ {hookLast'.key}

\* The parts of C34 that hold for every record: the key recorded is the most
\* recent entry afterwards; entries whose window is running are removed only
\* for a new key and a table that is still at capacity once the expired
\* entries are gone, and then they are exactly the oldest half of what the
\* pruning left; expired entries are removed, all of them, exactly when a
\* new key finds the table at capacity; the entries kept keep their order.
RecencyOfRecord ==
  LET m == hookAuthFailures
      live == Unexpired(m, now)
      half == {live[i].key : i \in 1..(Len(live) \div 2)}
      atCapacity == /\ ~MapHas(m, hookLast'.key)
                    /\ Len(m) >= HOOK_AUTH_FAILURE_TRACK_MAX
                    /\ Len(live) >= HOOK_AUTH_FAILURE_TRACK_MAX
  IN  /\ hookAuthFailures'[Len(hookAuthFailures')].key = hookLast'.key
      /\ Removed \cap MapKeys(live) = IF atCapacity THEN half ELSE {}
      /\ Removed \ MapKeys(live) =
           IF ~MapHas(m, hookLast'.key) /\ Len(m) >= HOOK_AUTH_FAILURE_TRACK_MAX
             THEN MapKeys(m) \ MapKeys(live) ELSE {}
      /\ \A t \in Retained : \A u \in Retained :
           Pos(m, t) < Pos(m, u) => Pos(hookAuthFailures', t) < Pos(hookAuthFailures', u)

\* C34 as claimed: in addition, no entry that the record removes, whether
\* expired or not, is more recent than an entry it keeps.
C34_NoRemovedEntryMoreRecent ==
  [][RecordsFailure
       => /\ RecencyOfRecord
          /\ \A r \in Removed : \A t \in Retained :
               Pos(hookAuthFailures, r) < Pos(hookAuthFailures, t)]_vars

\* C34, amended: no entry with a running window that the record removes is
\* more recent than an entry it keeps; an expired entry is removed wherever
\* it stands in the insertion order.
C34_EvictionFollowsRecency ==
  [][RecordsFailure
       => /\ RecencyOfRecord
          /\ \A r \in Removed \cap MapKeys(Unexpired(hookAuthFailures, now)) :
               \A t \in Retained :
                 Pos(hookAuthFailures, r) < Pos(hookAuthFailures, t)]_vars

\* A new key was recorded in a full table of running windows: the oldest
\* entry, that of the observed key, is gone, the newer one was kept and the
\* new key stands last.
C34_Witness ==
  /\ hookLast.status = 401
  /\ evicted /\ ~MapHas(hookAuthFailures, Observed)
  /\ Len(hookAuthFailures) = HOOK_AUTH_FAILURE_TRACK_MAX
  /\ hookAuthFailures[Len(hookAuthFailures)].key = hookLast.key
  /\ hookAuthFailures[Len(hookAuthFailures)].count = 1

(***************************************************************************)
(* Claims about throttling.                                                *)
(***************************************************************************)
\* C35: a hook request with the right token in its headers (and no token in
\* its query string) is never answered 401 or 429, whatever the failure
\* table holds for its key, and it leaves the table without an entry of the
\* key.
C35_RightTokenNeverRefused ==
  (/\ hookLast.req.configured /\ hookLast.req.inBasePath
   /\ ~hookLast.req.queryToken /\ hookLast.req.tokenOk)
    => /\ hookLast.status \notin {401, 429}
       /\ hookLast.retryAfter = 0
       /\ hookLast.key # 0
       /\ ~MapHas(hookAuthFailures, hookLast.key)

\* A key that was over the limit, in its running window, sent the right
\* token: it was answered 200 and its entry is gone.
C35_Witness ==
  /\ hookLast.req.tokenOk /\ hookLast.status = 200
  /\ now = 0
  /\ hookLast.hadCount > HOOK_AUTH_FAILURE_LIMIT
  /\ ~MapHas(hookAuthFailures, hookLast.key)

\* C36: a failure of a key whose entry has a window that began at least
\* HOOK_AUTH_FAILURE_WINDOW_MS ago opens a new window, with count 1 and
\* beginning now, and is answered 401; a failure of a key whose window is
\* running adds one to the count and leaves the beginning of the window where
\* it was, and it is answered 429 when the count was at the limit already.
C36_ThrottleEndsWithWindow ==
  [][(RecordsFailure /\ MapHas(hookAuthFailures, hookLast'.key))
       => LET e == MapGet(hookAuthFailures, hookLast'.key)
              f == MapGet(hookAuthFailures', hookLast'.key)
          IN  IF now - e.windowStartedAtMs >= HOOK_AUTH_FAILURE_WINDOW_MS
                THEN /\ f.count = 1
                     /\ f.windowStartedAtMs = now
                     /\ hookLast'.status = 401
                ELSE /\ f.count = e.count + 1
                     /\ f.windowStartedAtMs = e.windowStartedAtMs
                     /\ e.count >= HOOK_AUTH_FAILURE_LIMIT
                          => /\ hookLast'.status = 429
                             /\ hookLast'.retryAfter * 1000 >=
                                  e.windowStartedAtMs + HOOK_AUTH_FAILURE_WINDOW_MS - now
                             /\ hookLast'.retryAfter * 1000 <
                                  e.windowStartedAtMs + HOOK_AUTH_FAILURE_WINDOW_MS - now + 1000]_vars

\* A key over the limit failed again when its window was over: 401, and a
\* new window with count 1.
C36_Witness ==
  /\ hookLast.status = 401
  /\ hookLast.hadCount > HOOK_AUTH_FAILURE_LIMIT
  /\ now = HOOK_AUTH_FAILURE_WINDOW_MS
  /\ MapGet(hookAuthFailures, hookLast.key) =
       [key |-> hookLast.key, count |-> 1, windowStartedAtMs |-> now]

\* the children of a kind, and the one spawned last (0: none)
ChildrenOf(kind) == {id \in 1..Len(children) : children[id].kind = kind}

LatestOf(kind) ==
  IF ChildrenOf(kind) = {} THEN 0
  ELSE CHOOSE id \in ChildrenOf(kind) : \A other \in ChildrenOf(kind) : other <= id

HandleOf(kind) == IF kind = "xvfb" THEN xvfb ELSE x11vnc

\* C37 as claimed: of each kind at most one child is running that has not
\* been signalled; the handle of a kind names the child spawned last for the
\* kind while that child runs, and is null once that child was signalled or
\* has exited (a child that emitted 'error' is left aside here, see C8); and
\* the exit of an earlier child leaves the handle alone and arms no restart.
C37_OneChildPerKind ==
  /\ [](\A kind \in Kinds :
          /\ Cardinality({id \in ChildrenOf(kind) : children[id].st = "running"}) <= 1
          /\ HandleOf(kind) # 0 => HandleOf(kind) = LatestOf(kind)
          /\ LatestOf(kind) # 0 =>
               /\ children[LatestOf(kind)].st = "running"
                    => HandleOf(kind) = LatestOf(kind)
               /\ children[LatestOf(kind)].st \in {"killed", "exited"}
                    => HandleOf(kind) = 0)
  /\ [][\A id \in 1..Len(children) :
          (/\ vncLast'.op = "exit"
           /\ children[id].st # "exited" /\ children'[id].st = "exited"
           /\ id # LatestOf(children[id].kind))
            => /\ HandleOf(children[id].kind)' = HandleOf(children[id].kind)
               /\ ~vncLast'.scheduled]_vars

\* C38 as claimed: from the return of stop() to the next call of start(),
\* that is while `stopping` is set, no step spawns a child: not the rest of
\* an earlier start() that was waiting for the display, not a 5 s timeout,
\* not the 2 s timeout of a display restart.
C38_NoSpawnWhileStopped ==
  [][(stopping /\ vncLast'.op # "start")
       => /\ Len(children') = Len(children)
          /\ ~vncLast'.spawned]_vars

(***************************************************************************)
(* Claims about overlapping calls of the browser control service.          *)
(***************************************************************************)
\* C39 as claimed, in what it says of single steps: a state object is
\* installed only when none is installed (a second one between two completed
\* stops would replace the first while it is still there), and a start call
\* that completes returns the object that is installed then.
C39_OneStateBetweenStops ==
  [][/\ ctlLast'.installed => state = Null
     /\ ctlLast'.op \in {"start", "start returns"} => ctlLast'.returned = state']_vars

(***************************************************************************)
(* Claims about the supervisor API and the browser control service.        *)
(***************************************************************************)
ServiceCalled ==
  \/ Called(gwLast.res.events, "stopBrowserControlService")
  \/ Called(gwLast.res.events, "startBrowserControlServiceFromConfig")

\* C40: the supervisor API starts or stops the browser control service only
\* for a POST to start, stop or restart.  The status action is answered 200
\* for any method without a call of the service, and a request to an action
\* path with another method is answered (404) without a call of the service.
C40_OnlyPostChangesService ==
  gwLast.kind = "http" /\ Called(gwLast.res.events, "viewerApi") =>
    /\ ServiceCalled =>
         gwLast.req.method = "POST" /\ gwLast.req.api \in {"start", "stop", "restart"}
    /\ gwLast.req.api = "status" => gwLast.res.status = 200 /\ ~ServiceCalled
    /\ gwLast.req.api # "status" /\ gwLast.req.method # "POST" =>
         gwLast.res.status = 404 /\ ~ServiceCalled

\* a GET of the stop path reached the supervisor API and was answered
\* without a call of the service
C40_Witness ==
  /\ gwLast.kind = "http"
  /\ gwLast.req.path = "vncApi"
  /\ gwLast.req.api = "stop"
  /\ gwLast.req.method = "GET"
  /\ Called(gwLast.res.events, "viewerApi")
  /\ gwLast.res.status = 404
  /\ ~ServiceCalled

====
